---------------------------- MODULE Spec2Model ----------------------------
(***************************************************************************)
(* Model of the Tiendanube feed server (src/server.js): the token store,   *)
(* the per-store feed cache, the public-domain resolver and the handlers   *)
(* GET /feed.xml, GET /oauth/callback and POST /webhook.                   *)
(*                                                                         *)
(* JavaScript strings are sequences of one-character strings.  A           *)
(* JavaScript value that reaches normalizeDomain is a record               *)
(*   [t |-> tag, s |-> characters, o |-> fields]                           *)
(* with tag "null", "str", "num", "bool", "obj" or "arr".                  *)
(***************************************************************************)
EXTENDS Integers, Sequences, FiniteSets, TLC

(***************************************************************************)
(* Strings                                                                 *)
(***************************************************************************)
UpperSeq == <<"A","B","C","D","E","F","G","H","I","J","K","L","M",
              "N","O","P","Q","R","S","T","U","V","W","X","Y","Z">>
LowerSeq == <<"a","b","c","d","e","f","g","h","i","j","k","l","m",
              "n","o","p","q","r","s","t","u","v","w","x","y","z">>
DigitSet == {"0","1","2","3","4","5","6","7","8","9"}
SpaceSet == {" ", "\t", "\n"}

Range(f) == { f[i] : i \in DOMAIN f }

\* String.prototype.toLowerCase, one character
Lower(c) ==
  IF \E i \in DOMAIN UpperSeq : UpperSeq[i] = c
  THEN LowerSeq[CHOOSE i \in DOMAIN UpperSeq : UpperSeq[i] = c]
  ELSE c

LowerStr(s) == [i \in DOMAIN s |-> Lower(s[i])]

IsLetter(c) == Lower(c) \in Range(LowerSeq)

StartsWith(s, p) == Len(s) >= Len(p) /\ SubSeq(s, 1, Len(p)) = p

EndsWith(s, p) == Len(s) >= Len(p) /\ SubSeq(s, Len(s) - Len(p) + 1, Len(s)) = p

\* String.prototype.trim
RECURSIVE TrimLeft(_)
TrimLeft(s) == IF s # <<>> /\ Head(s) \in SpaceSet THEN TrimLeft(Tail(s)) ELSE s

RECURSIVE TrimRight(_)
TrimRight(s) ==
  IF s # <<>> /\ s[Len(s)] \in SpaceSet THEN TrimRight(SubSeq(s, 1, Len(s) - 1)) ELSE s

Trim(s) == TrimRight(TrimLeft(s))

\* String.prototype.split(ch) for a one-character separator
RECURSIVE Split(_, _)
Split(s, ch) ==
  IF \E i \in DOMAIN s : s[i] = ch
  THEN LET i == CHOOSE k \in DOMAIN s : s[k] = ch /\ \A j \in 1..(k - 1) : s[j] # ch
       IN  <<SubSeq(s, 1, i - 1)>> \o Split(SubSeq(s, i + 1, Len(s)), ch)
  ELSE <<s>>

\* Array.prototype.join(ch)
RECURSIVE Join(_, _)
Join(parts, ch) ==
  IF parts = <<>> THEN <<>>
  ELSE IF Len(parts) = 1 THEN parts[1]
  ELSE parts[1] \o <<ch>> \o Join(Tail(parts), ch)

\* Array.prototype.filter(Boolean) on an array of strings and nulls
RECURSIVE FilterTruthy(_)

DigitSeq == <<"0","1","2","3","4","5","6","7","8","9">>

\* String(n) of a natural number
RECURSIVE NatToString(_)
NatToString(n) ==
  IF n < 10 THEN <<DigitSeq[n + 1]>>
  ELSE NatToString(n \div 10) \o <<DigitSeq[(n % 10) + 1]>>

(***************************************************************************)
(* JavaScript values                                                       *)
(***************************************************************************)
\* The string result null is the one-element sequence <<"null">>, which is
\* no string of characters.
NullS == <<"null">>

Truthy(s) == s # NullS /\ s # <<>>

FilterTruthy(seq) ==
  IF seq = <<>> THEN <<>>
  ELSE IF Truthy(Head(seq)) THEN <<Head(seq)>> \o FilterTruthy(Tail(seq))
  ELSE FilterTruthy(Tail(seq))

NoFields == [k \in {} |-> <<>>]

NullV == [t |-> "null", s |-> <<>>, o |-> NoFields]
StrV(s) == [t |-> "str", s |-> s, o |-> NoFields]
\* a number, by its decimal digits
NumV(digits) == [t |-> "num", s |-> digits, o |-> NoFields]
BoolV(b) == [t |-> "bool", s |-> IF b THEN <<"1">> ELSE <<>>, o |-> NoFields]
\* a plain object: o maps its own keys to values
ObjV(fields) == [t |-> "obj", s |-> <<>>, o |-> fields]
\* an array: o maps 1..n to values
ArrV(elems) == [t |-> "arr", s |-> <<>>, o |-> elems]

IsNullish(v) == v.t = "null"

\* !val
Falsy(v) ==
  \/ v.t = "null"
  \/ v.t = "str" /\ v.s = <<>>
  \/ v.t = "num" /\ v.s = <<"0">>
  \/ v.t = "bool" /\ v.s = <<>>

\* val.key and val?.key: undefined (NullV) on null, on a primitive and on a
\* missing key
Field(v, key) ==
  IF v.t = "obj" /\ key \in DOMAIN v.o THEN v.o[key] ELSE NullV

IsArray(v) == v.t = "arr"

(***************************************************************************)
(* normalizeDomain, isLikelyHost, pickBestDomain                           *)
(***************************************************************************)
HttpPrefix == <<"h","t","t","p",":","/","/">>
HttpsPrefix == <<"h","t","t","p","s",":","/","/">>
PlatformSuffix == <<".","t","i","e","n","d","a","n","u","b","e",".","c","o","m">>
ObjectObject == <<"[","o","b","j","e","c","t"," ","O","b","j","e","c","t","]">>

\* .replace(/^https?:\/\//i, '')
StripScheme(s) ==
  IF StartsWith(LowerStr(s), HttpsPrefix) THEN SubSeq(s, Len(HttpsPrefix) + 1, Len(s))
  ELSE IF StartsWith(LowerStr(s), HttpPrefix) THEN SubSeq(s, Len(HttpPrefix) + 1, Len(s))
  ELSE s

\* .replace(/\/+$/g, '')
RECURSIVE StripSlashes(_)
StripSlashes(s) ==
  IF s # <<>> /\ s[Len(s)] = "/" THEN StripSlashes(SubSeq(s, 1, Len(s) - 1)) ELSE s

NormalizeString(s) == StripSlashes(StripScheme(Trim(s)))

\* String(val) of an array of strings: its elements joined by ","
ArrayToString(v) == Join([i \in DOMAIN v.o |-> v.o[i].s], ",")

RECURSIVE normalizeDomain(_)
normalizeDomain(val) ==
  IF Falsy(val) THEN NullS
  ELSE IF val.t = "str" THEN NormalizeString(val.s)
  ELSE IF val.t = "num" THEN val.s
  ELSE IF val.t = "obj" THEN
    IF ~Falsy(Field(val, "domain")) THEN normalizeDomain(Field(val, "domain"))
    ELSE IF ~Falsy(Field(val, "url")) THEN normalizeDomain(Field(val, "url"))
    ELSE IF ~Falsy(Field(val, "name")) THEN normalizeDomain(Field(val, "name"))
    ELSE IF ~Falsy(Field(val, "host")) THEN normalizeDomain(Field(val, "host"))
    ELSE IF ~Falsy(Field(val, "es")) THEN normalizeDomain(Field(val, "es"))
    ELSE NullS
  ELSE IF val.t = "arr" THEN
    IF ArrayToString(val) = ObjectObject THEN NullS
    ELSE normalizeDomain(StrV(ArrayToString(val)))
  ELSE NullS

\* a string result of normalizeDomain, as a value again
AsValue(s) == IF s = NullS THEN NullV ELSE StrV(s)

IsLabelChar(c) == IsLetter(c) \/ c \in DigitSet \/ c = "-"

\* /^(?:[a-z0-9-]+\.)+[a-z]{2,}$/i
isLikelyHost(h) ==
  /\ Truthy(h)
  /\ LET labels == Split(h, ".")
         n == Len(labels)
     IN  /\ n >= 2
         /\ \A i \in 1..(n - 1) :
              labels[i] # <<>> /\ \A j \in DOMAIN labels[i] : IsLabelChar(labels[i][j])
         /\ Len(labels[n]) >= 2
         /\ \A j \in DOMAIN labels[n] : IsLetter(labels[n][j])

\* /\.tiendanube\.com$/i
IsPlatformHost(d) == EndsWith(LowerStr(d), PlatformSuffix)

IsCustom(d) == ~IsPlatformHost(d)

\* list.find((d) => !/\.tiendanube\.com$/i.test(d)): the index of the first
\* custom entry from i on, 0 when there is none
RECURSIVE FirstCustom(_, _)
FirstCustom(list, i) ==
  IF i > Len(list) THEN 0
  ELSE IF IsCustom(list[i]) THEN i
  ELSE FirstCustom(list, i + 1)

\* domains is NullV or an array of values
pickBestDomain(domains) ==
  LET arr == IF Falsy(domains) THEN <<>> ELSE domains.o
      list == FilterTruthy([i \in DOMAIN arr |-> normalizeDomain(arr[i])])
      custom == FirstCustom(list, 1)
  IN  IF list = <<>> THEN NullS
      ELSE IF custom # 0 THEN list[custom]
      ELSE list[1]

\* a || b on strings and nulls
OrElse(a, b) == IF Truthy(a) THEN a ELSE b

\* process.env.DOMAINS_MAP: "storeId:host,storeId:host"; the entry of
\* storeId is the first pair that starts with "storeId:"
RECURSIVE FirstWithPrefix(_, _, _)
FirstWithPrefix(pairs, prefix, i) ==
  IF i > Len(pairs) THEN 0
  ELSE IF StartsWith(pairs[i], prefix) THEN i
  ELSE FirstWithPrefix(pairs, prefix, i + 1)

MapPairs(mapStr) ==
  LET parts == Split(mapStr, ",")
  IN  FilterTruthy([i \in DOMAIN parts |-> Trim(parts[i])])

\* hit.split(':').slice(1).join(':')
AfterFirstColon(hit) == Join(Tail(Split(hit, ":")), ":")

DomainsMapHost(storeId, mapStr) ==
  LET pairs == MapPairs(mapStr)
      hit == FirstWithPrefix(pairs, storeId \o <<":">>, 1)
      host == IF hit = 0 THEN NullS
              ELSE normalizeDomain(StrV(AfterFirstColon(pairs[hit])))
  IN  IF mapStr # <<>> /\ hit # 0 /\ Truthy(host) /\ isLikelyHost(host)
      THEN host ELSE NullS

QueryHost(query) ==
  LET q == normalizeDomain(query)
  IN  IF Truthy(q) /\ isLikelyHost(q) /\ ~IsPlatformHost(q) THEN q ELSE NullS

\* resolveDomainOverrides with DOMAINS_MAP consulted before the query
resolveDomainOverrides_MapFirst(query, storeId, mapStr) ==
  IF Truthy(DomainsMapHost(storeId, mapStr)) THEN DomainsMapHost(storeId, mapStr)
  ELSE QueryHost(query)

\* query is req.query.domain
resolveDomainOverrides(query, storeId, mapStr) ==
  IF Truthy(QueryHost(query)) THEN QueryHost(query)
  ELSE DomainsMapHost(storeId, mapStr)

(***************************************************************************)
(* Numbers and text of the catalogue: Number, toFixed, String,             *)
(* getLocalized, normalizeText.  A number is [nan, n] with n in            *)
(* thousandths; digits after the third decimal are not kept.               *)
(***************************************************************************)
NaN == [nan |-> TRUE, n |-> 0]
Num(n) == [nan |-> FALSE, n |-> n]

\* the value of a sequence of decimal digits
RECURSIVE DigitsToNat(_)
DigitsToNat(ds) ==
  IF ds = <<>> THEN 0
  ELSE 10 * DigitsToNat(SubSeq(ds, 1, Len(ds) - 1))
       + (CHOOSE d \in 0..9 : DigitSeq[d + 1] = ds[Len(ds)])

IsDigits(ds) == \A i \in DOMAIN ds : ds[i] \in DigitSet

\* the thousandths of the digits after the decimal point
FractionToThousandths(ds) ==
  DigitsToNat(SubSeq(ds \o <<"0", "0", "0">>, 1, 3))

\* StringToNumber of a decimal literal: sign, digits, point, digits; the
\* empty string is 0; anything else is NaN
ParseDecimal(text) ==
  CHOOSE number \in
    { IF t = <<>> THEN Num(0)
      ELSE CHOOSE signed \in
             { LET whole == parts[1]
                   frac == IF Len(parts) = 2 THEN parts[2] ELSE <<>>
                   magnitude == 1000 * DigitsToNat(whole) + FractionToThousandths(frac)
               IN  IF Len(parts) > 2 \/ ~IsDigits(whole) \/ ~IsDigits(frac)
                      \/ Len(whole) + Len(frac) = 0
                   THEN NaN
                   ELSE Num(IF t[1] = "-" THEN 0 - magnitude ELSE magnitude) :
                 parts \in {Split(IF t[1] \in {"-", "+"} THEN Tail(t) ELSE t, ".")} } :
               TRUE :
        t \in {Trim(text)} } : TRUE

TrueText == <<"t","r","u","e">>
FalseText == <<"f","a","l","s","e">>

\* String(v)
StringOf(v) ==
  IF v.t = "null" THEN NullS
  ELSE IF v.t = "bool" THEN (IF v.s = <<>> THEN FalseText ELSE TrueText)
  ELSE IF v.t = "obj" THEN ObjectObject
  ELSE IF v.t = "arr" THEN ArrayToString(v)
  ELSE v.s

\* Number(v) of a value that is neither null nor undefined
ToNumber(v) ==
  IF v.t = "bool" THEN Num(IF v.s = <<>> THEN 0 ELSE 1000)
  ELSE IF v.t \in {"str", "num"} THEN ParseDecimal(v.s)
  ELSE IF v.t = "arr" THEN ParseDecimal(ArrayToString(v))
  ELSE NaN

\* n.toFixed(2) of a number in thousandths, rounded to the nearest hundredth
\* (a number halfway is rounded away from zero)
ToFixed2(n) ==
  LET magnitude == IF n < 0 THEN 0 - n ELSE n
      cents == (magnitude + 5) \div 10
  IN  (IF n < 0 THEN <<"-">> ELSE <<>>)
      \o NatToString(cents \div 100) \o <<".">>
      \o <<DigitSeq[((cents % 100) \div 10) + 1], DigitSeq[(cents % 10) + 1]>>

toMoney(v) ==
  IF IsNullish(v) \/ (v.t = "str" /\ v.s = <<>>) THEN NullS
  ELSE CHOOSE money \in
         { IF n.nan THEN NullS ELSE ToFixed2(n.n) : n \in {ToNumber(v)} } : TRUE

\* the keys of an object other than es; getLocalized takes the first key in
\* insertion order, which is known when the object has one such key
OtherKeys(val) == DOMAIN val.o \ {"es"}

getLocalized(val) ==
  IF IsNullish(val) THEN StrV(<<>>)
  ELSE IF val.t = "obj" THEN
    IF ~Falsy(Field(val, "es")) THEN Field(val, "es")
    ELSE IF DOMAIN val.o = {} THEN StrV(<<>>)
    ELSE IF OtherKeys(val) = {} THEN Field(val, "es")
    ELSE val.o[CHOOSE k \in OtherKeys(val) : TRUE]
  ELSE IF val.t = "arr" THEN
    IF Len(val.o) > 0 THEN val.o[1] ELSE StrV(<<>>)
  ELSE StrV(StringOf(val))

\* String(s || '').trim()
normalizeText(s) == IF Falsy(s) THEN <<>> ELSE Trim(StringOf(s))

(***************************************************************************)
(* tnFetch: the upstream answers with a response                           *)
(*   [kind |-> "network" | "http", status, json, body]                     *)
(* and tnFetch throws or returns the parsed body.                          *)
(***************************************************************************)
Thrown(status) == [thrown |-> TRUE, status |-> status, body |-> NullV]
\* no call made
NoResult == [thrown |-> FALSE, status |-> -1, body |-> NullV]
Returned(body) == [thrown |-> FALSE, status |-> 0, body |-> body]

NetworkError == [kind |-> "network", status |-> 0, json |-> FALSE, body |-> NullV]
HttpError(status) == [kind |-> "http", status |-> status, json |-> TRUE, body |-> NullV]
BadJson == [kind |-> "http", status |-> 200, json |-> FALSE, body |-> NullV]
HttpOk(body) == [kind |-> "http", status |-> 200, json |-> TRUE, body |-> body]
\* no response yet
NoResponse == [kind |-> "none", status |-> 0, json |-> FALSE, body |-> NullV]

\* res.ok
ResOk(response) == response.status >= 200 /\ response.status <= 299

\* tnFetch without the check of res.ok
tnFetch_IgnoreStatus(response) ==
  IF response.kind = "network" THEN Thrown(0)
  ELSE IF ~response.json THEN Thrown(0)
  ELSE Returned(response.body)

tnFetch(response) ==
  IF response.kind = "network" THEN Thrown(0)
  ELSE IF ~ResOk(response) THEN Thrown(response.status)
  ELSE IF ~response.json THEN Thrown(0)
  ELSE Returned(response.body)

(***************************************************************************)
(* getPublicDomain, step by step                                           *)
(***************************************************************************)
\* d?.domain ?? d
DomainOrSelf(d) ==
  IF IsNullish(d) THEN d
  ELSE IF ~IsNullish(Field(d, "domain")) THEN Field(d, "domain")
  ELSE d

\* an exception that leaves getPublicDomain
ThrowS == <<"throw">>

\* the /domains step without its try block
DomainsPick_NoCatch(result) ==
  IF result.thrown THEN ThrowS
  ELSE LET arr == result.body
           domains == IF IsArray(arr)
                      THEN [i \in DOMAIN arr.o |->
                              AsValue(normalizeDomain(DomainOrSelf(arr.o[i])))]
                      ELSE <<>>
       IN  pickBestDomain(ArrV(domains))

\* the try block around /domains: the pick, or NullS to go on to /store
DomainsPick(result) ==
  IF result.thrown THEN NullS
  ELSE LET arr == result.body
           domains == IF IsArray(arr)
                      THEN [i \in DOMAIN arr.o |->
                              AsValue(normalizeDomain(DomainOrSelf(arr.o[i])))]
                      ELSE <<>>
       IN  pickBestDomain(ArrV(domains))

\* const pick in the try block around /store; NullS when tnFetch threw
StoreChoice(result) ==
  IF result.thrown THEN NullS
  ELSE LET store == result.body
           domainsFromStore ==
             IF IsArray(Field(store, "domains")) THEN Field(store, "domains")
             ELSE IF IsArray(Field(store, "domain")) THEN Field(store, "domain")
             ELSE NullV
       IN  OrElse(pickBestDomain(domainsFromStore),
                  OrElse(normalizeDomain(Field(store, "original_domain")),
                         normalizeDomain(Field(store, "store_domain"))))

\* the try block around /store: the pick, or NullS to go on to the fallback
StorePick(result) ==
  LET pick == StoreChoice(result)
  IN  IF Truthy(pick) /\ isLikelyHost(pick) THEN pick ELSE NullS

\* the fallback without the store id
FallbackDomain_Bare(storeId) == Tail(PlatformSuffix)

FallbackDomain(storeId) == storeId \o PlatformSuffix

(***************************************************************************)
(* State                                                                   *)
(***************************************************************************)
VARIABLES
  FEED_CACHE_TTL_SECONDS, \* configuration, fixed at start
  DOMAINS_MAP,            \* configuration, fixed at start
  VARIANT_MODE,           \* configuration, lower case: "first" or another word
  BRAND_MAP,              \* configuration: "storeId:brand,storeId:brand"
  DEFAULT_BRAND,          \* configuration
  DATABASE_URL,           \* configuration: TRUE when a connection string is set
  pool,                   \* TRUE while the variable pool holds a Pool
  dbInit,                 \* the start-up block: "pending" or "done"
  dbInitPromise,          \* the revision with initDbOnce: "none" (undefined),
                          \* "pending" or "settled"
  tokensTable,            \* table tokens: store_id -> access_token
  storeTokens,            \* the in-memory fallback: store id -> token
  feedCache,              \* Map store id -> {xml, etag, generatedAt, expiresAt}
  storeMetrics,           \* Map store id -> counters
  now,                    \* Date.now(), in milliseconds
  feed,                   \* the GET /feed.xml handlers, one per slot
  inst,                   \* the GET /oauth/callback handler
  hook,                   \* the POST /webhook handler
  dash,                   \* the GET /dashboard handler
  hist                    \* what has happened so far; the program never reads it

(***************************************************************************)
(* hist.left is what the behaviour may still start.  hist.uninstalled[s]   *)
(* is "deleting" from the moment a verified app/uninstalled webhook for s  *)
(* starts deleteToken, "yes" once that webhook is answered 200, and "no"   *)
(* from the moment a credential of s is written.  hist.lastSaved[s] and    *)
(* hist.prevSaved[s] are the tokens of the last two saveToken calls for s  *)
(* that have returned since the last deleteToken for s.  hist.lastPut[s]   *)
(* is the document of the last setCached for s, hist.etags the etags       *)
(* setCached has returned, hist.puts the setCached calls made: the xml     *)
(* and the store passed, the etag returned, and the time of the call.      *)
(***************************************************************************)

vars == <<FEED_CACHE_TTL_SECONDS, DOMAINS_MAP, VARIANT_MODE, BRAND_MAP,
          DEFAULT_BRAND, DATABASE_URL, pool, dbInit, dbInitPromise, tokensTable,
          storeTokens, feedCache, storeMetrics, now, feed, inst, hook, dash, hist>>

config == <<FEED_CACHE_TTL_SECONDS, DOMAINS_MAP, VARIANT_MODE, BRAND_MAP,
            DEFAULT_BRAND, DATABASE_URL>>

Slots == {"r1", "r2"}
NoToken == "none"
Store1 == <<"1">>
Store2 == <<"2">>
Stores == {Store1, Store2}

(***************************************************************************)
(* Token store                                                             *)
(***************************************************************************)
\* storeTokens[storeId] || null
MemoryToken(storeId) ==
  IF storeId \in DOMAIN storeTokens THEN storeTokens[storeId] ELSE NoToken

\* the row of SELECT access_token FROM tokens WHERE store_id = $1
RowToken(storeId) ==
  IF storeId \in DOMAIN tokensTable THEN tokensTable[storeId] ELSE NoToken

\* getToken with the store id dropped from the in-memory lookup
getToken_AnyStore(storeId, usePool, dbOk) ==
  IF usePool /\ dbOk /\ RowToken(storeId) # NoToken THEN RowToken(storeId)
  ELSE IF storeTokens = <<>> THEN NoToken
  ELSE storeTokens[CHOOSE k \in DOMAIN storeTokens : TRUE]

\* what getToken returns when it saw pool as usePool and its query, if any,
\* runs now and succeeds (dbOk) or fails
getToken(storeId, usePool, dbOk) ==
  IF usePool /\ dbOk /\ RowToken(storeId) # NoToken THEN RowToken(storeId)
  ELSE MemoryToken(storeId)

\* every value a getToken call started now can return
GetTokenResults(storeId) ==
  { getToken(storeId, pool, dbOk) : dbOk \in BOOLEAN }

\* what hasToken returns when it saw pool as usePool and its query, if any,
\* runs now and succeeds (dbOk) or fails
hasToken(storeId, usePool, dbOk) ==
  IF storeId = <<>> THEN FALSE
  ELSE IF usePool /\ dbOk THEN RowToken(storeId) # NoToken
  ELSE MemoryToken(storeId) # NoToken

\* Map.set and Map.delete on a function
MapSet(m, k, v) == [x \in DOMAIN m \cup {k} |-> IF x = k THEN v ELSE m[x]]
MapDelete(m, k) == [x \in DOMAIN m \ {k} |-> m[x]]

(***************************************************************************)
(* Feed cache                                                              *)
(***************************************************************************)
\* a digest of the document and of the time of the call
Sha1Hex_Timed(xml) == <<"sha1", xml, now>>

\* crypto.createHash('sha1').update(xml).digest('hex'): a function of the
\* bytes, taken to be free of collisions
Sha1Hex(xml) == <<"sha1", xml>>

\* the time to live without Math.max(0, .)
TtlMs_Unclamped == FEED_CACHE_TTL_SECONDS * 1000

\* Math.max(0, FEED_CACHE_TTL_SECONDS) * 1000
TtlMs == (IF FEED_CACHE_TTL_SECONDS > 0 THEN FEED_CACHE_TTL_SECONDS ELSE 0) * 1000

\* getCached with Date.now() >= c.expiresAt
getCached_EvictAtExpiry(storeId) ==
  IF storeId \notin DOMAIN feedCache
  THEN [ret |-> <<>>, cache |-> feedCache]
  ELSE IF now >= feedCache[storeId].expiresAt
  THEN [ret |-> <<>>, cache |-> MapDelete(feedCache, storeId)]
  ELSE [ret |-> <<feedCache[storeId]>>, cache |-> feedCache]

\* getCached without the expiry test
getCached_NeverExpires(storeId) ==
  IF storeId \notin DOMAIN feedCache
  THEN [ret |-> <<>>, cache |-> feedCache]
  ELSE [ret |-> <<feedCache[storeId]>>, cache |-> feedCache]

\* getCached(storeId): what it returns (<<>> for null, else <<entry>>) and
\* the cache it leaves
getCached(storeId) ==
  IF storeId \notin DOMAIN feedCache
  THEN [ret |-> <<>>, cache |-> feedCache]
  ELSE IF now > feedCache[storeId].expiresAt
  THEN [ret |-> <<>>, cache |-> MapDelete(feedCache, storeId)]
  ELSE [ret |-> <<feedCache[storeId]>>, cache |-> feedCache]

\* setCached that keeps the entry a store already has
setCached_KeepFirst(storeId, xml) ==
  [ret |-> [etag |-> Sha1Hex(xml)],
   cache |-> IF storeId \in DOMAIN feedCache THEN feedCache
             ELSE MapSet(feedCache, storeId,
                         [xml |-> xml, etag |-> Sha1Hex(xml),
                          generatedAt |-> now, expiresAt |-> now + TtlMs])]

\* setCached that computes the etag and leaves the cache as it is
setCached_Skipped(storeId, xml) ==
  [ret |-> [etag |-> Sha1Hex(xml)], cache |-> feedCache]

\* setCached(storeId, xml): what it returns and the cache it leaves
setCached(storeId, xml) ==
  LET etag == Sha1Hex(xml)
  IN  [ret |-> [etag |-> etag],
       cache |-> MapSet(feedCache, storeId,
                        [xml |-> xml, etag |-> etag,
                         generatedAt |-> now, expiresAt |-> now + TtlMs])]

(***************************************************************************)
(* Metrics                                                                 *)
(***************************************************************************)
NewMetrics ==
  [feed_requests |-> 0, feed_cache_hits |-> 0, feed_304 |-> 0, feed_errors |-> 0,
   last_error |-> 0, last_products_count |-> -1, last_domain |-> NullS]

\* getMetrics(storeId): the entry, created when missing
getMetrics(storeId) ==
  IF storeId \in DOMAIN storeMetrics THEN storeMetrics[storeId] ELSE NewMetrics

\* an increment that starts from a fresh entry instead of the stored one
MetricsIncr_Fresh(storeId, f) ==
  MapSet(storeMetrics, storeId, [NewMetrics EXCEPT ![f] = 1])

\* the metrics map after field f of store storeId is incremented
MetricsIncr(storeId, f) ==
  MapSet(storeMetrics, storeId,
         [getMetrics(storeId) EXCEPT ![f] = getMetrics(storeId)[f] + 1])

(***************************************************************************)
(* The document of a generation pass                                       *)
(***************************************************************************)
InvalidDomain == <<"i","n","v","a","l","i","d","-","d","o","m","a","i","n">>

\* no document
NoDoc == <<>>

InStock == <<"i","n","_","s","t","o","c","k">>
OutOfStock == <<"o","u","t","_","o","f","_","s","t","o","c","k">>
DefaultName == <<"d","e","f","a","u","l","t">>

\* a || b on values
OrValue(a, b) == IF Falsy(a) THEN b ELSE a

\* imgs.find((im) => String(im.id) === String(v.image_id)): the index of the
\* first such image from i on, 0 when there is none
RECURSIVE FirstImage(_, _, _)
FirstImage(imgs, imageId, i) ==
  IF i > Len(imgs) THEN 0
  ELSE IF StringOf(Field(imgs[i], "id")) = StringOf(imageId) THEN i
  ELSE FirstImage(imgs, imageId, i + 1)

\* chooseImage(p, v); the elements of images are objects
chooseImage(p, v) ==
  LET imgs == IF IsArray(Field(p, "images")) THEN Field(p, "images").o ELSE <<>>
      hit == IF ~Falsy(v) /\ ~Falsy(Field(v, "image_id")) /\ Len(imgs) > 0
             THEN FirstImage(imgs, Field(v, "image_id"), 1) ELSE 0
      im == IF hit # 0 THEN imgs[hit] ELSE imgs[1]
  IN  IF imgs = <<>> THEN StrV(<<>>)
      ELSE OrValue(Field(im, "src"), OrValue(Field(im, "url"), StrV(<<>>)))

\* const item_id of buildItemFromVariant
ItemId(productId, v) ==
  LET variantId == IF IsNullish(Field(v, "id")) THEN <<>>
                   ELSE StringOf(Field(v, "id"))
  IN  IF variantId # <<>> THEN productId \o <<"-">> \o variantId ELSE productId

\* sale_price with promo <= regular accepted
SalePrice_UpToRegular(regular, promo) ==
  IF /\ Truthy(regular) /\ Truthy(promo)
     /\ \E r \in {ParseDecimal(regular)}, pnum \in {ParseDecimal(promo)} :
          ~r.nan /\ ~pnum.nan /\ pnum.n > 0 /\ pnum.n <= r.n
  THEN promo ELSE NullS

\* let sale_price of buildItemFromVariant, from the two toMoney results
SalePrice(regular, promo) ==
  IF /\ Truthy(regular) /\ Truthy(promo)
     /\ \E r \in {ParseDecimal(regular)}, pnum \in {ParseDecimal(promo)} :
          ~r.nan /\ ~pnum.nan /\ pnum.n > 0 /\ pnum.n < r.n
  THEN promo ELSE NullS

\* availability with a stock of zero counted as in stock
Availability_ZeroInStock(v) ==
  IF Falsy(Field(v, "stock_management")) THEN InStock
  ELSE IF /\ ~IsNullish(Field(v, "stock"))
          /\ \E st \in {ToNumber(Field(v, "stock"))} : ~st.nan /\ st.n >= 0
  THEN InStock ELSE OutOfStock

\* let availability of buildItemFromVariant
Availability(v) ==
  IF Falsy(Field(v, "stock_management")) THEN InStock
  ELSE IF /\ ~IsNullish(Field(v, "stock"))
          /\ \E st \in {ToNumber(Field(v, "stock"))} : ~st.nan /\ st.n > 0
  THEN InStock ELSE OutOfStock

\* buildItemFromVariant; regular, promo and variantName are its constants
buildItemFromVariant(p, v, productId, titleBase, descBase, handleSlug) ==
  CHOOSE item \in
    { [item_id |-> ItemId(productId, v),
       title |-> IF variantName # <<>> /\ LowerStr(variantName) # DefaultName
                 THEN titleBase \o <<" ", "-", " ">> \o variantName ELSE titleBase,
       description |-> descBase,
       handleSlug |-> handleSlug,
       image_link |-> chooseImage(p, v),
       price |-> regular,
       sale_price |-> SalePrice(regular, promo),
       availability |-> Availability(v),
       rawProduct |-> p,
       rawVariant |-> v] :
        variantName \in {normalizeText(getLocalized(Field(v, "name")))},
        regular \in {toMoney(Field(v, "price"))},
        promo \in {toMoney(Field(v, "promotional_price"))} } : TRUE

\* the variants of a product handed to buildItemFromVariant
VariantsUsed(variants) ==
  IF VARIANT_MODE = "first" THEN <<variants[1]>> ELSE variants

\* the body of the loop of flattenItems: the items of one product; name,
\* description and handle are the normalized texts of these fields
ProductItems(p) ==
  CHOOSE items \in
    { IF variants = <<>>
      THEN << [item_id |-> productId, title |-> name,
               description |-> IF description # <<>> THEN description ELSE name,
               handleSlug |-> IF handle # <<>> THEN handle ELSE productId,
               image_link |-> chooseImage(p, NullV),
               price |-> NullS, sale_price |-> NullS, availability |-> OutOfStock,
               rawProduct |-> p, rawVariant |-> NullV] >>
      ELSE [i \in DOMAIN VariantsUsed(variants) |->
              buildItemFromVariant(p, VariantsUsed(variants)[i], productId, name,
                                   IF description # <<>> THEN description ELSE name,
                                   IF handle # <<>> THEN handle ELSE productId)] :
        productId \in {IF ~IsNullish(Field(p, "id")) THEN StringOf(Field(p, "id"))
                       ELSE normalizeText(getLocalized(Field(p, "handle")))},
        name \in {normalizeText(getLocalized(Field(p, "name")))},
        description \in {normalizeText(getLocalized(Field(p, "description")))},
        handle \in {normalizeText(getLocalized(Field(p, "handle")))},
        variants \in {IF IsArray(Field(p, "variants")) THEN Field(p, "variants").o
                      ELSE <<>>} } : TRUE

\* what a loop leaves that pushes the elements of seqs[1], seqs[2], ... in
\* turn
RECURSIVE Concat(_)
Concat(seqs) ==
  IF seqs = <<>> THEN <<>>
  ELSE IF Len(seqs) = 1 THEN seqs[1]
  ELSE LET half == Len(seqs) \div 2
       IN  Concat(SubSeq(seqs, 1, half)) \o Concat(SubSeq(seqs, half + 1, Len(seqs)))

flattenItems(products) ==
  CHOOSE items \in
    { Concat(pushed) :
        pushed \in {[i \in DOMAIN products |-> ProductItems(products[i])]} } : TRUE

(***************************************************************************)
(* Brand                                                                   *)
(***************************************************************************)
resolveBrandOverride(storeId) ==
  LET pairs == MapPairs(BRAND_MAP)
      hit == FirstWithPrefix(pairs, storeId \o <<":">>, 1)
  IN  IF BRAND_MAP = <<>> \/ hit = 0 THEN <<>>
      ELSE Trim(AfterFirstColon(pairs[hit]))

\* typeof v === 'object' of a value that is not null
IsObject(v) == v.t \in {"obj", "arr"}

\* what each if of getBrandForProduct would assign to brandVal, in the order
\* of the ifs: an empty string for a source that is missing
BrandCandidates(p) ==
  << IF Falsy(Field(p, "brand")) THEN StrV(<<>>)
     ELSE IF IsObject(Field(p, "brand")) /\ ~Falsy(Field(Field(p, "brand"), "name"))
     THEN getLocalized(Field(Field(p, "brand"), "name"))
     ELSE getLocalized(Field(p, "brand")),
     IF Falsy(Field(p, "vendor")) THEN StrV(<<>>)
     ELSE getLocalized(Field(p, "vendor")),
     IF Falsy(Field(p, "manufacturer")) THEN StrV(<<>>)
     ELSE getLocalized(Field(p, "manufacturer")),
     IF IsObject(Field(p, "attributes"))
     THEN getLocalized(OrValue(Field(Field(p, "attributes"), "brand"),
                               OrValue(Field(Field(p, "attributes"), "marca"),
                                       NullV)))
     ELSE StrV(<<>>) >>

\* let brandVal of getBrandForProduct before it is trimmed: every if is
\* guarded by !brandVal, so the first assignment of a truthy value stays
ProductBrandValue(p) ==
  CHOOSE brandVal \in
    { IF assigned = <<>> THEN StrV(<<>>) ELSE assigned[1] :
        assigned \in {SelectSeq(BrandCandidates(p), LAMBDA b : ~Falsy(b))} } : TRUE

getBrandForProduct(storeId, p) ==
  CHOOSE brand \in
    { IF override # <<>> THEN override
      ELSE IF brandVal = <<>> /\ DEFAULT_BRAND # <<>> THEN Trim(DEFAULT_BRAND)
      ELSE brandVal :
        override \in {resolveBrandOverride(storeId)},
        brandVal \in {normalizeText(ProductBrandValue(p))} } : TRUE

(***************************************************************************)
(* buildXmlFeed: the document is the sequence of its lines, a line being   *)
(* <<element, text>>                                                       *)
(***************************************************************************)
Line(element, text) == <<element, text>>

EscapeChar(c) ==
  IF c = "&" THEN <<"&","a","m","p",";">>
  ELSE IF c = "<" THEN <<"&","l","t",";">>
  ELSE IF c = ">" THEN <<"&","g","t",";">>
  ELSE IF c = "\"" THEN <<"&","q","u","o","t",";">>
  ELSE IF c = "'" THEN <<"&","a","p","o","s",";">>
  ELSE <<c>>

\* xmlEscape of a string or null
RECURSIVE xmlEscape(_)
xmlEscape(text) ==
  IF ~Truthy(text) THEN <<>>
  ELSE EscapeChar(Head(text)) \o xmlEscape(Tail(text))

CdataEnd == <<"]", "]", ">">>
CdataSplit == <<"]","]","]","]",">","<","!","[","C","D","A","T","A","[",">">>

\* safeCdata of a string or null
RECURSIVE safeCdata(_)
safeCdata(text) ==
  IF ~Truthy(text) THEN <<>>
  ELSE IF StartsWith(text, CdataEnd)
  THEN CdataSplit \o safeCdata(SubSeq(text, 4, Len(text)))
  ELSE <<Head(text)>> \o safeCdata(Tail(text))

ProductsPath == <<"/","p","r","o","d","u","c","t","o","s","/">>
UtmQuery == <<"/","?","u","t","m","_","s","o","u","r","c","e","=","x","m","l">>
Currency == <<" ", "A", "R", "S">>

productLink(storeDomain, handle) ==
  CHOOSE link \in
    { HttpsPrefix \o host \o ProductsPath \o handle \o UtmQuery :
        host \in {OrElse(normalizeDomain(StrV(storeDomain)), InvalidDomain)} } : TRUE

\* the lines pushed for one item, with or without a price
ItemLines_Unpriced(it, safeDomain, storeId) ==
  CHOOSE lines \in
    { IF FALSE THEN <<>>
      ELSE << Line("item", <<>>),
              Line("g:id", xmlEscape(it.item_id)),
              Line("g:title", safeCdata(it.title)),
              Line("g:description", safeCdata(it.description)),
              Line("g:link", xmlEscape(link)) >>
           \o (IF image # <<>> THEN <<Line("g:image_link", xmlEscape(image))>>
               ELSE <<>>)
           \o << Line("g:availability", xmlEscape(it.availability)),
                 Line("g:price", xmlEscape(it.price) \o Currency) >>
           \o (IF Truthy(it.sale_price)
               THEN <<Line("g:sale_price", xmlEscape(it.sale_price) \o Currency)>>
               ELSE <<>>)
           \o << Line("g:condition", <<"n","e","w">>) >>
           \o (IF brandVal # <<>> THEN <<Line("g:brand", safeCdata(brandVal))>>
               ELSE <<>>)
           \o << Line("g:identifier_exists", FalseText), Line("/item", <<>>) >> :
        brandVal \in {getBrandForProduct(storeId, it.rawProduct)},
        image \in {IF Falsy(it.image_link) THEN <<>> ELSE StringOf(it.image_link)},
        link \in {productLink(safeDomain, it.handleSlug)} } : TRUE

\* the lines pushed for one item; none when it has no price
ItemLines(it, safeDomain, storeId) ==
  CHOOSE lines \in
    { IF ~Truthy(it.price) THEN <<>>
      ELSE << Line("item", <<>>),
              Line("g:id", xmlEscape(it.item_id)),
              Line("g:title", safeCdata(it.title)),
              Line("g:description", safeCdata(it.description)),
              Line("g:link", xmlEscape(link)) >>
           \o (IF image # <<>> THEN <<Line("g:image_link", xmlEscape(image))>>
               ELSE <<>>)
           \o << Line("g:availability", xmlEscape(it.availability)),
                 Line("g:price", xmlEscape(it.price) \o Currency) >>
           \o (IF Truthy(it.sale_price)
               THEN <<Line("g:sale_price", xmlEscape(it.sale_price) \o Currency)>>
               ELSE <<>>)
           \o << Line("g:condition", <<"n","e","w">>) >>
           \o (IF brandVal # <<>> THEN <<Line("g:brand", safeCdata(brandVal))>>
               ELSE <<>>)
           \o << Line("g:identifier_exists", FalseText), Line("/item", <<>>) >> :
        brandVal \in {getBrandForProduct(storeId, it.rawProduct)},
        image \in {IF Falsy(it.image_link) THEN <<>> ELSE StringOf(it.image_link)},
        link \in {productLink(safeDomain, it.handleSlug)} } : TRUE

\* the lines of the items, those of the last item first
AllItemLines_LastFirst(items, safeDomain, storeId) ==
  CHOOSE lines \in
    { Concat(pushed) :
        pushed \in {[i \in DOMAIN items |->
                       ItemLines(items[Len(items) + 1 - i], safeDomain, storeId)]} } :
      TRUE

\* const lines of buildXmlFeed after its loop
AllItemLines(items, safeDomain, storeId) ==
  CHOOSE lines \in
    { Concat(pushed) :
        pushed \in {[i \in DOMAIN items |->
                       ItemLines(items[i], safeDomain, storeId)]} } : TRUE

\* buildXmlFeed; lines.join of no lines is an empty line
buildXmlFeed(items, storeDomain, storeId) ==
  CHOOSE xml \in
    { << Line("?xml", <<>>), Line("rss", <<>>), Line("channel", <<>>),
         Line("title", <<>>),
         Line("link", HttpsPrefix \o xmlEscape(safeDomain) \o <<"/">>),
         Line("description", <<>>) >>
      \o (CHOOSE joined \in
            { IF lines = <<>> THEN <<Line("", <<>>)>> ELSE lines :
                lines \in {AllItemLines(items, safeDomain, storeId)} } : TRUE)
      \o << Line("/channel", <<>>), Line("/rss", <<>>) >> :
        safeDomain \in {OrElse(normalizeDomain(StrV(storeDomain)), InvalidDomain)} } :
      TRUE

\* const xml of the handler, from the products fetched
FeedXml(products, storeDomain, storeId) ==
  buildXmlFeed(flattenItems(products), storeDomain, storeId)

(***************************************************************************)
(* Headers                                                                 *)
(***************************************************************************)
\* a header value: <<>> (absent or empty), an etag, <<"quoted", v>> for
\* "v" and <<"W/", v>> for W/v
Quoted(v) == <<"quoted", v>>
Weak(v) == <<"W/", v>>

\* .replace(/"/g, '')
RECURSIVE StripQuotes(_)
StripQuotes(h) ==
  IF h = <<>> THEN <<>>
  ELSE IF h[1] = "quoted" THEN StripQuotes(h[2])
  ELSE IF h[1] = "W/" THEN Weak(StripQuotes(h[2]))
  ELSE h

(***************************************************************************)
(* GET /feed.xml                                                           *)
(***************************************************************************)
per_page == 200

\* a products request that asks for the first page again
Call_FirstPage(path, page) == [path |-> path, page |-> IF page > 1 THEN 1 ELSE page]

\* an upstream request: its path and, for /products, its page
Call(path, page) == [path |-> path, page |-> page]

IdleFeed ==
  [pc |-> "idle", sid |-> <<>>, inm |-> <<>>, query |-> NullV, token |-> NoToken,
   cached |-> <<>>, domainsRes |-> NoResult, storeRes |-> NoResult,
   pageRes |-> NoResponse, flat |-> <<>>,
   storeDomain |-> NullS, page |-> 0, all |-> <<>>,
   calls |-> <<>>, status |-> 0, body |-> NoDoc, etagHdr |-> <<>>]

\* res.status(status).send(...) with no document
Respond(rec, status) == [rec EXCEPT !.pc = "done", !.status = status]

\* res.setHeader('ETag', `"${etag}"`); res.send(xml)
RespondXml(rec, xml, etag) ==
  [rec EXCEPT !.pc = "done", !.status = 200, !.body = xml, !.etagHdr = Quoted(etag)]

\* the comparison without .replace(/"/g, '')
NotModified_Unstripped(inm, etag) == inm # <<>> /\ inm = etag

\* ifNoneMatch && ifNoneMatch === etag
NotModified(inm, etag) == StripQuotes(inm) # <<>> /\ StripQuotes(inm) = etag

\* if (!store_id) return res.status(400)
FeedMissingStore(r) ==
  /\ feed[r].pc \in {"idle", "done"}
  /\ hist.left.feeds > 0
  /\ feed' = [feed EXCEPT ![r] = Respond(IdleFeed, 400)]
  /\ hist' = [hist EXCEPT !.left.feeds = @ - 1]
  /\ UNCHANGED <<config, dbInitPromise, dash, pool, dbInit, tokensTable, storeTokens, feedCache,
                 storeMetrics, now, inst, hook>>

\* from the request's arrival to the await in getToken
FeedStart(r, sid, inm, query) ==
  /\ feed[r].pc \in {"idle", "done"}
  /\ hist.left.feeds > 0
  /\ storeMetrics' = MetricsIncr(sid, "feed_requests")
  /\ feed' = [feed EXCEPT ![r] =
       [IdleFeed EXCEPT !.sid = sid, !.inm = inm, !.query = query,
                        !.pc = IF pool THEN "getToken" ELSE "haveToken",
                        !.token = IF pool THEN NoToken
                                 ELSE getToken(sid, FALSE, FALSE)]]
  /\ hist' = [hist EXCEPT !.left.feeds = @ - 1]
  /\ UNCHANGED <<config, dbInitPromise, dash, pool, dbInit, tokensTable, storeTokens, feedCache,
                 now, inst, hook>>

\* the SELECT of getToken answers, or fails
FeedTokenResult(r, dbOk) ==
  /\ feed[r].pc = "getToken"
  /\ feed' = [feed EXCEPT ![r].pc = "haveToken",
                          ![r].token = getToken(feed[r].sid, TRUE, dbOk)]
  /\ UNCHANGED <<config, dbInitPromise, dash, pool, dbInit, tokensTable, storeTokens, feedCache,
                 storeMetrics, now, inst, hook, hist>>

\* from the token to the first upstream call, or to the response
FeedAfterToken(r) ==
  LET rec == feed[r]
      sid == rec.sid
      c == getCached(sid)
      override == resolveDomainOverrides(rec.query, sid, DOMAINS_MAP)
  IN
  /\ rec.pc = "haveToken"
  /\ IF rec.token = NoToken
     THEN /\ feed' = [feed EXCEPT ![r] = Respond(rec, 401)]
          /\ UNCHANGED <<feedCache, storeMetrics>>
     ELSE /\ feedCache' = c.cache
          /\ IF c.ret # <<>>
             THEN LET cached == c.ret[1] IN
                  IF NotModified(rec.inm, cached.etag)
                  THEN /\ storeMetrics' = MetricsIncr(sid, "feed_304")
                       /\ feed' = [feed EXCEPT ![r] =
                            Respond([rec EXCEPT !.cached = c.ret], 304)]
                  ELSE /\ storeMetrics' = MetricsIncr(sid, "feed_cache_hits")
                       /\ feed' = [feed EXCEPT ![r] =
                            RespondXml([rec EXCEPT !.cached = c.ret],
                                       cached.xml, cached.etag)]
             ELSE /\ UNCHANGED storeMetrics
                  /\ IF Truthy(override)
                     THEN feed' = [feed EXCEPT ![r] =
                            [rec EXCEPT !.pc = "products", !.storeDomain = override,
                                        !.page = 1,
                                        !.calls = <<Call("/products", 1)>>]]
                     ELSE feed' = [feed EXCEPT ![r] =
                            [rec EXCEPT !.pc = "domains",
                                        !.calls = <<Call("/domains", 0)>>]]
  /\ UNCHANGED <<config, dbInitPromise, dash, pool, dbInit, tokensTable, storeTokens, now, inst,
                 hook, hist>>

\* the catch block of the handler
FeedCatch(r, status) ==
  /\ storeMetrics' = MapSet(storeMetrics, feed[r].sid,
       [getMetrics(feed[r].sid) EXCEPT !.feed_errors = @ + 1,
                                       !.last_error = status])
  /\ feed' = [feed EXCEPT ![r] = Respond(feed[r], 500)]

\* getPublicDomain: the /domains call answers
FeedDomains(r, response) ==
  LET rec == [feed[r] EXCEPT !.domainsRes = tnFetch(response)]
      pick == DomainsPick(rec.domainsRes)
  IN
  /\ feed[r].pc = "domains"
  /\ IF pick = ThrowS
     THEN FeedCatch(r, rec.domainsRes.status)
     ELSE /\ UNCHANGED storeMetrics
          /\ IF Truthy(pick)
             THEN feed' = [feed EXCEPT ![r] =
                    [rec EXCEPT !.pc = "products", !.storeDomain = pick, !.page = 1,
                                !.calls = Append(@, Call("/products", 1))]]
             ELSE feed' = [feed EXCEPT ![r] =
                    [rec EXCEPT !.pc = "store",
                                !.calls = Append(@, Call("/store", 0))]]
  /\ UNCHANGED <<config, dbInitPromise, dash, pool, dbInit, tokensTable, storeTokens, feedCache,
                 now, inst, hook, hist>>

\* getPublicDomain: the /store call answers
FeedStore(r, response) ==
  LET rec == [feed[r] EXCEPT !.storeRes = tnFetch(response)]
      pick == StorePick(rec.storeRes)
  IN
  /\ feed[r].pc = "store"
  /\ IF pick = ThrowS
     THEN FeedCatch(r, rec.storeRes.status)
     ELSE /\ UNCHANGED storeMetrics
          /\ feed' = [feed EXCEPT ![r] =
               [rec EXCEPT !.pc = "products",
                           !.storeDomain = IF Truthy(pick) THEN pick
                                           ELSE FallbackDomain(rec.sid),
                           !.page = 1,
                           !.calls = Append(@, Call("/products", 1))]]
  /\ UNCHANGED <<config, dbInitPromise, dash, pool, dbInit, tokensTable, storeTokens, feedCache,
                 now, inst, hook, hist>>

\* the upstream returns a full page
IsFullPage(response) ==
  ~tnFetch(response).thrown /\ IsArray(response.body)
    /\ Len(response.body.o) >= per_page

\* if (!Array.isArray(data) || data.length === 0) break
PageStops(data) == ~IsArray(data) \/ Len(data.o) = 0

\* all.push(...data) that skips the records all already holds
PageAppend_Dedup(all, data) ==
  IF PageStops(data) THEN all
  ELSE all \o SelectSeq(data.o, LAMBDA p : \A i \in DOMAIN all : all[i] # p)

\* all.push(...data), reached when the page does not stop the loop
PageAppend(all, data) == IF PageStops(data) THEN all ELSE all \o data.o

\* a loop that goes on after a short page
MorePages_AfterShort(data) == ~PageStops(data)

\* the loop goes on: neither break was taken
MorePages(data) == ~PageStops(data) /\ ~(Len(data.o) < per_page)

\* fetchAllProducts: a page answers; after the last page the document is
\* built, cached and sent
FeedProducts(r, response) ==
  LET rec == [feed[r] EXCEPT !.pageRes = response]
      sid == rec.sid
      result == tnFetch(response)
      data == result.body
      all == PageAppend(rec.all, data)
      more == MorePages(data)
      flat == flattenItems(all)
      xml == buildXmlFeed(flat, rec.storeDomain, sid)
      put == setCached(sid, xml)
      m == [getMetrics(sid) EXCEPT !.last_products_count = Len(all),
                                   !.last_domain = rec.storeDomain]
  IN
  /\ rec.pc = "products"
  /\ IsFullPage(response) => rec.page <= hist.left.fullPages
  /\ IF result.thrown
     THEN /\ storeMetrics' = MapSet(storeMetrics, sid,
               [getMetrics(sid) EXCEPT !.feed_errors = @ + 1,
                                       !.last_error = result.status])
          /\ feed' = [feed EXCEPT ![r] = Respond(rec, 500)]
          /\ UNCHANGED <<feedCache, hist>>
     ELSE IF more
     THEN /\ feed' = [feed EXCEPT ![r] =
               [rec EXCEPT !.all = all, !.page = @ + 1,
                           !.calls = Append(@, Call("/products", rec.page + 1))]]
          /\ UNCHANGED <<feedCache, storeMetrics, hist>>
     ELSE /\ feedCache' = put.cache
          /\ hist' = [hist EXCEPT !.lastPut = MapSet(@, sid, xml),
                                  !.etags = @ \cup {put.ret.etag},
                                  !.puts = @ \cup {[xml |-> xml, etag |-> put.ret.etag,
                                                      sid |-> sid, at |-> now]}]
          /\ IF NotModified(rec.inm, put.ret.etag)
             THEN /\ storeMetrics' = MapSet(storeMetrics, sid,
                                            [m EXCEPT !.feed_304 = @ + 1])
                  /\ feed' = [feed EXCEPT ![r] =
                       Respond([rec EXCEPT !.all = all, !.flat = flat, !.body = NoDoc],
                               304)]
             ELSE /\ storeMetrics' = MapSet(storeMetrics, sid, m)
                  /\ feed' = [feed EXCEPT ![r] =
                       RespondXml([rec EXCEPT !.all = all, !.flat = flat], xml,
                                  put.ret.etag)]
  /\ UNCHANGED <<config, dbInitPromise, dash, pool, dbInit, tokensTable, storeTokens, now, inst, hook>>

(***************************************************************************)
(* GET /oauth/callback and saveToken                                       *)
(***************************************************************************)
IdleInst == [pc |-> "idle", sid |-> <<>>, tok |-> NoToken, status |-> 0]

\* the callback ends before saveToken: no code (400), a failed exchange or
\* a token response without access_token or store_id (500)
InstallRejected(status) ==
  /\ inst.pc \in {"idle", "done"}
  /\ hist.left.installs > 0
  /\ inst' = [IdleInst EXCEPT !.pc = "done", !.status = status]
  /\ hist' = [hist EXCEPT !.left.installs = @ - 1]
  /\ UNCHANGED <<config, dbInitPromise, dash, pool, dbInit, tokensTable, storeTokens, feedCache,
                 storeMetrics, now, feed, hook>>

\* saveToken has returned: the history of completed saves
Saved(h, sid, tok) ==
  [h EXCEPT !.prevSaved = MapSet(@, sid, h.lastSaved[sid]),
            !.lastSaved = MapSet(@, sid, tok)]

\* the token exchange answered with access_token and store_id; saveToken
\* runs to its await, or to its end when there is no pool
InstallStart(sid, tok) ==
  /\ inst.pc \in {"idle", "done"}
  /\ hist.left.installs > 0
  /\ storeTokens' = MapSet(storeTokens, sid, tok)
  /\ inst' = [pc |-> IF pool THEN "dbWrite" ELSE "done", sid |-> sid, tok |-> tok,
              status |-> IF pool THEN 0 ELSE 302]
  /\ hist' = LET h == [hist EXCEPT !.left.installs = @ - 1,
                                   !.uninstalled = MapSet(@, sid, "no")]
             IN  IF pool THEN h ELSE Saved(h, sid, tok)
  /\ UNCHANGED <<config, dbInitPromise, dash, pool, dbInit, tokensTable, feedCache, storeMetrics,
                 now, feed, hook>>

\* the INSERT ... ON CONFLICT DO UPDATE of saveToken answers, or fails; the
\* callback then redirects to the dashboard
InstallDbWrite(dbOk) ==
  /\ inst.pc = "dbWrite"
  /\ tokensTable' = IF dbOk THEN MapSet(tokensTable, inst.sid, inst.tok)
                    ELSE tokensTable
  /\ inst' = [inst EXCEPT !.pc = "done", !.status = 302]
  /\ hist' = Saved([hist EXCEPT !.uninstalled =
                                IF dbOk THEN MapSet(@, inst.sid, "no") ELSE @],
                   inst.sid, inst.tok)
  /\ UNCHANGED <<config, dbInitPromise, dash, pool, dbInit, storeTokens, feedCache, storeMetrics,
                 now, feed, hook>>

(***************************************************************************)
(* POST /webhook and deleteToken                                           *)
(***************************************************************************)
TN_CLIENT_SECRET == "secret"

\* crypto.createHmac('sha256', secret).update(raw).digest('hex')
HmacSha256(secret, raw) == <<"hmac-sha256", secret, raw>>

\* the locals of the handler: hmacHeader, req.body, the store id handed to
\* deleteToken, and the status sent
IdleHook ==
  [pc |-> "idle", sid |-> <<>>, status |-> 0, header |-> <<>>,
   body |-> [store_id |-> <<>>, event |-> ""]]

Verified(header, body) ==
  header # <<>> /\ header = HmacSha256(TN_CLIENT_SECRET, body)

\* event === 'app/uninstalled' && store_id
IsUninstall(body) == body.event = "app/uninstalled" /\ body.store_id # <<>>

\* from the delivery to the await in deleteToken, or to the response
WebhookStart(header, body) ==
  /\ hook.pc \in {"idle", "done"}
  /\ hist.left.hooks > 0
  /\ IF ~Verified(header, body)
     THEN /\ hook' = [IdleHook EXCEPT !.pc = "done", !.status = 401,
                                      !.header = header, !.body = body]
          /\ hist' = [hist EXCEPT !.left.hooks = @ - 1]
          /\ UNCHANGED storeTokens
     ELSE IF IsUninstall(body)
     THEN /\ storeTokens' = MapDelete(storeTokens, body.store_id)
          /\ hook' = [pc |-> IF pool THEN "dbDelete" ELSE "done",
                      sid |-> body.store_id,
                      status |-> IF pool THEN 0 ELSE 200,
                      header |-> header, body |-> body]
          /\ hist' = [hist EXCEPT
               !.left.hooks = @ - 1,
               !.lastSaved = MapSet(@, body.store_id, NoToken),
               !.prevSaved = MapSet(@, body.store_id, NoToken),
               !.uninstalled = MapSet(@, body.store_id,
                                        IF pool THEN "deleting" ELSE "yes")]
     ELSE /\ hook' = [IdleHook EXCEPT !.pc = "done", !.status = 200,
                                      !.header = header, !.body = body]
          /\ hist' = [hist EXCEPT !.left.hooks = @ - 1]
          /\ UNCHANGED storeTokens
  /\ UNCHANGED <<config, dbInitPromise, dash, pool, dbInit, tokensTable, feedCache, storeMetrics,
                 now, feed, inst>>

\* the DELETE of deleteToken answers, or fails; the handler answers 200
WebhookDbDelete(dbOk) ==
  /\ hook.pc = "dbDelete"
  /\ tokensTable' = IF dbOk THEN MapDelete(tokensTable, hook.sid) ELSE tokensTable
  /\ hook' = [hook EXCEPT !.pc = "done", !.status = 200]
  /\ hist' = [hist EXCEPT !.uninstalled =
       IF @[hook.sid] = "deleting" THEN MapSet(@, hook.sid, "yes") ELSE @]
  /\ UNCHANGED <<config, dbInitPromise, dash, pool, dbInit, storeTokens, feedCache, storeMetrics,
                 now, feed, inst>>

(***************************************************************************)
(* GET /dashboard and hasToken                                             *)
(***************************************************************************)
IdleDash == [pc |-> "idle", sid |-> <<>>, has |-> FALSE]

\* from the request's arrival to the await in hasToken, or to the page
DashStart(sid) ==
  /\ dash.pc \in {"idle", "done"}
  /\ hist.left.views > 0
  /\ dash' = [pc |-> IF pool /\ sid # <<>> THEN "hasToken" ELSE "done", sid |-> sid,
              has |-> IF pool THEN FALSE ELSE hasToken(sid, FALSE, FALSE)]
  /\ hist' = [hist EXCEPT !.left.views = @ - 1]
  /\ UNCHANGED <<config, dbInitPromise, pool, dbInit, tokensTable, storeTokens,
                 feedCache, storeMetrics, now, feed, inst, hook>>

\* the SELECT of hasToken answers, or fails; the page is sent
DashTokenResult(dbOk) ==
  /\ dash.pc = "hasToken"
  /\ dash' = [dash EXCEPT !.pc = "done", !.has = hasToken(dash.sid, TRUE, dbOk)]
  /\ UNCHANGED <<config, dbInitPromise, pool, dbInit, tokensTable, storeTokens,
                 feedCache, storeMetrics, now, feed, inst, hook, hist>>

(***************************************************************************)
(* Start-up block and clock                                                *)
(***************************************************************************)
\* ensureSchema answers, or throws and the catch block drops the pool
DbInitDone(ok) ==
  /\ dbInit = "pending"
  /\ dbInit' = "done"
  /\ pool' = (pool /\ ok)
  /\ UNCHANGED <<config, dbInitPromise, dash, tokensTable, storeTokens, feedCache, storeMetrics,
                 now, feed, inst, hook, hist>>

\* the clock advances by ms milliseconds
Tick(ms) ==
  /\ hist.left.ticks > 0
  /\ now' = now + ms
  /\ hist' = [hist EXCEPT !.left.ticks = @ - 1]
  /\ UNCHANGED <<config, dbInitPromise, dash, pool, dbInit, tokensTable, storeTokens, feedCache,
                 storeMetrics, feed, inst, hook>>

(***************************************************************************)
(* Specifications                                                          *)
(***************************************************************************)
EmptyMap == [k \in {} |-> 0]

\* what a behaviour may still start: feed requests, OAuth callbacks, webhook
\* deliveries, clock steps; and the full pages one request may be sent
Budget(feeds, installs, hooks, ticks, fullPages) ==
  [feeds |-> feeds, installs |-> installs, hooks |-> hooks, ticks |-> ticks,
   fullPages |-> fullPages]

InitHist(budget) ==
  [left |-> budget,
   uninstalled |-> [s \in Stores |-> "no"],
   lastSaved |-> [s \in Stores |-> NoToken],
   prevSaved |-> [s \in Stores |-> NoToken],
   lastPut |-> EmptyMap,
   etags |-> {},
   puts |-> {}]

\* the state after the module is loaded: the start-up block has run to its
\* await (a connection string is configured) or to its end (none is)
InitWith(ttls, maps, connections, budget) ==
  /\ FEED_CACHE_TTL_SECONDS \in ttls
  /\ DOMAINS_MAP \in maps
  /\ VARIANT_MODE = "split"
  /\ BRAND_MAP = <<>>
  /\ DEFAULT_BRAND = <<>>
  /\ pool \in connections
  /\ DATABASE_URL = pool
  /\ dbInit = IF pool THEN "pending" ELSE "done"
  /\ dbInitPromise = "none"
  /\ tokensTable = EmptyMap
  /\ storeTokens = EmptyMap
  /\ feedCache = EmptyMap
  /\ storeMetrics = EmptyMap
  /\ now = 0
  /\ feed = [r \in Slots |-> IdleFeed]
  /\ inst = IdleInst
  /\ hook = IdleHook
  /\ dash = IdleDash
  /\ hist = InitHist(budget)

ACo == <<"a",".","c","o">>
BCo == <<"b",".","c","o">>
CCo == <<"c",".","c","o">>

Product(id) == ObjV([id |-> NumV(id)])
TenPesos == <<"1","0",".","0","0">>
Variant(id, price) == ObjV([id |-> NumV(id), price |-> StrV(price)])
PricedProduct(id) ==
  ObjV([id |-> NumV(id), variants |-> ArrV(<<Variant(<<"1">>, TenPesos)>>)])
ShortPage == ArrV(<<PricedProduct(<<"7">>)>>)
FullPage == ArrV([i \in 1..per_page |-> Product(<<"9">>)])

\* If-None-Match as clients send it: absent, or an ETag this server sent
InmChoices == {<<>>} \cup { Quoted(e) : e \in hist.etags }

\* the inputs the specifications hand to the handlers: query parameters and
\* upstream answers
QueryA == StrV(ACo)
QueryB == StrV(BCo)
Forbidden == HttpError(403)
NotFound == HttpError(404)
ServerError == HttpError(500)
OkShort == HttpOk(ShortPage)

HookBodies == [store_id : Stores \cup {<<>>}, event : {"app/uninstalled", "order/paid"}]
HookHeaders(body) ==
  {<<>>, HmacSha256(TN_CLIENT_SECRET, body), HmacSha256("other", body)}

(***************************************************************************)
(* Spec: the token store under installs, uninstalls and feed requests,     *)
(* with and without a database                                             *)
(***************************************************************************)
TokFeeds == 2
TokInstalls == 2
TokHooks == 1

\* the access token of the n-th token exchange: the platform issues a new
\* one each time
TokenNames == <<"t1", "t2", "t3", "t4">>
IssuedToken == TokenNames[TokInstalls - hist.left.installs + 1]

Init == InitWith({1}, {<<>>}, BOOLEAN, Budget(TokFeeds, TokInstalls, TokHooks, 0, 0))

Next ==
  \/ \E sid \in Stores : FeedStart("r1", sid, <<>>, NullV)
  \/ \E dbOk \in BOOLEAN : FeedTokenResult("r1", dbOk)
  \/ FeedAfterToken("r1")
  \/ FeedDomains("r1", Forbidden)
  \/ FeedStore("r1", NotFound)
  \/ FeedProducts("r1", OkShort)
  \/ InstallStart(Store1, IssuedToken)
  \/ \E dbOk \in BOOLEAN : InstallDbWrite(dbOk)
  \/ \E body \in HookBodies : \E header \in HookHeaders(body) :
       WebhookStart(header, body)
  \/ \E dbOk \in BOOLEAN : WebhookDbDelete(dbOk)
  \/ \E ok \in BOOLEAN : DbInitDone(ok)

Spec == Init /\ [][Next]_vars

(***************************************************************************)
(* SpecCache: the feed cache under concurrent feed requests and the clock, *)
(* without a database                                                      *)
(***************************************************************************)
CacheFeeds == 2
CacheTicks == 2
MsPerSecond == 1000

EmptyPage == ArrV(<<>>)
OkEmpty == HttpOk(EmptyPage)
CacheResponses == {ServerError, OkShort, OkEmpty}
ShortOrError == {OkShort, ServerError}

\* a slot is a name for a request in flight: a request takes r2 only while
\* r1 is busy
SlotFree(r) ==
  /\ feed[r].pc \in {"idle", "done"}
  /\ r = "r2" => feed["r1"].pc \notin {"idle", "done"}

InitCache ==
  InitWith({-1, 1}, {<<>>}, {FALSE},
           Budget(CacheFeeds, Cardinality(Stores), 0, CacheTicks, 0))

NextCache ==
  \/ \E r \in Slots, sid \in Stores, inm \in InmChoices :
       SlotFree(r) /\ FeedStart(r, sid, inm, QueryA)
  \/ \E r \in Slots : FeedAfterToken(r)
  \/ \E r \in Slots, response \in CacheResponses : FeedProducts(r, response)
  \/ \E sid \in Stores : sid \notin DOMAIN storeTokens /\ InstallStart(sid, "t1")
  \/ Tick(MsPerSecond)

SpecCache == InitCache /\ [][NextCache]_vars
(***************************************************************************)
(* SpecDomain: getPublicDomain inside a feed request, over the shapes of   *)
(* the domain query parameter, of DOMAINS_MAP and of the /domains and      *)
(* /store answers                                                          *)
(***************************************************************************)
DomFeeds == 1

Localhost == <<"l","o","c","a","l","h","o","s","t">>
PlatformHost == <<"s">> \o PlatformSuffix
\* " https://a.co/ "
PaddedUrl == <<" ">> \o HttpsPrefix \o ACo \o <<"/", " ">>
\* "HTTP://B.CO//"
UpperUrl == <<"H","T","T","P",":","/","/","B",".","C","O","/","/">>

DomainQueries ==
  { NullV, StrV(ACo), StrV(PaddedUrl), StrV(PlatformHost), StrV(Localhost),
    ArrV(<<StrV(ACo), StrV(BCo)>>) }

\* "1:b.co", "12:a.co, 1:c.co", "1:localhost", "1:s.tiendanube.com",
\* "2:b.co"
DomainMaps ==
  { <<>>,
    <<"1", ":">> \o BCo,
    <<"1", "2", ":">> \o ACo \o <<",", " ", "1", ":">> \o CCo,
    <<"1", ":">> \o Localhost,
    <<"1", ":">> \o PlatformHost,
    <<"2", ":">> \o BCo }

FailedResponses ==
  { NetworkError, HttpError(401), HttpError(403), HttpError(404), HttpError(500),
    BadJson }

DomainsBodies ==
  { NullV,
    ObjV([domain |-> StrV(ACo)]),
    ArrV(<<>>),
    ArrV(<<NullV, StrV(<<>>)>>),
    ArrV(<<StrV(PlatformHost), StrV(UpperUrl), StrV(CCo)>>),
    ArrV(<<ObjV([domain |-> StrV(PlatformHost)]), ObjV([id |-> NumV(<<"5">>)])>>),
    ArrV(<<StrV(Localhost)>>),
    ArrV(<<ObjV([domain |-> NullV, url |-> StrV(PaddedUrl)])>>) }

StoreBodies ==
  { NullV,
    StrV(ACo),
    ObjV([id |-> NumV(<<"1">>)]),
    ObjV([domains |-> ArrV(<<StrV(PlatformHost), StrV(BCo)>>),
          original_domain |-> StrV(CCo)]),
    ObjV([domain |-> ArrV(<<ObjV([name |-> StrV(PlatformHost)])>>)]),
    ObjV([domain |-> StrV(ACo), original_domain |-> StrV(UpperUrl)]),
    ObjV([domains |-> ArrV(<<StrV(Localhost)>>), original_domain |-> StrV(CCo)]),
    ObjV([original_domain |-> StrV(Localhost), store_domain |-> StrV(CCo)]),
    ObjV([store_domain |-> StrV(PlatformHost)]) }

InitDomain ==
  InitWith({1}, DomainMaps, {FALSE}, Budget(DomFeeds, Cardinality({Store1}), 0, 0, 0))

DomainsResponses == FailedResponses \cup { HttpOk(b) : b \in DomainsBodies }
StoreResponses == FailedResponses \cup { HttpOk(b) : b \in StoreBodies }

NextDomain ==
  \/ \E q \in DomainQueries : FeedStart("r1", Store1, <<>>, q)
  \/ FeedAfterToken("r1")
  \/ \E response \in DomainsResponses : FeedDomains("r1", response)
  \/ \E response \in StoreResponses : FeedStore("r1", response)
  \/ \E response \in ShortOrError : FeedProducts("r1", response)
  \/ InstallStart(Store1, "t1")

SpecDomain == InitDomain /\ [][NextDomain]_vars
(***************************************************************************)
(* SpecPages: fetchAllProducts inside concurrent feed requests, over the   *)
(* answers of the upstream to each page request; the catalogue that the    *)
(* request in the second slot sees fits one page                           *)
(***************************************************************************)
PageFeeds == 2
MaxFullPages == 2

\* page number page of a catalogue whose products are numbered by their
\* page; the first product of a page has a variant with a price
FullPageOf(page) ==
  ArrV([i \in 1..per_page |->
          IF i = 1 THEN PricedProduct(NatToString(page)) ELSE Product(NatToString(page))])

\* what the upstream may answer to the request of a page: the page of the
\* catalogue, the page before it once more (the catalogue grew by a page
\* since), a short page, an empty page, a body that is no array, a failure
PageResponses(page) ==
  { HttpOk(FullPageOf(page)), HttpOk(FullPageOf(IF page > 1 THEN page - 1 ELSE 1)),
    HttpOk(ShortPage), HttpOk(EmptyPage), HttpOk(ObjV([code |-> NumV(<<"4">>)])),
    HttpError(500), HttpError(429), NetworkError }

InitPages ==
  InitWith({1}, {<<>>}, {FALSE},
           Budget(PageFeeds, Cardinality({Store1}), 0, 0, MaxFullPages))

NextPages ==
  \/ \E r \in Slots : SlotFree(r) /\ FeedStart(r, Store1, <<>>, QueryA)
  \/ \E r \in Slots : FeedAfterToken(r)
  \/ \E response \in PageResponses(feed["r1"].page) : FeedProducts("r1", response)
  \/ \E response \in ShortOrError : FeedProducts("r2", response)
  \/ InstallStart(Store1, "t1")

SpecPages == InitPages /\ [][NextPages]_vars

\* an answer to the page request of r arrives; the failure, one of the
\* answers in both slots, is named first
PageAnswer(r) ==
  \/ FeedProducts(r, ServerError)
  \/ /\ r = "r1"
     /\ \E response \in PageResponses(feed["r1"].page) : FeedProducts("r1", response)
  \/ /\ r = "r2"
     /\ \E response \in ShortOrError : FeedProducts("r2", response)

\* the upstream answers every page request: the fetch of tnFetch settles
FairPages == \A r \in Slots : WF_vars(PageAnswer(r))

SpecPagesFair == SpecPages /\ FairPages
(***************************************************************************)
(* SpecItems: flattenItems, getBrandForProduct and buildXmlFeed inside a   *)
(* feed request, over a catalogue of products and variants and over the    *)
(* configuration of the variant mode and of the brands                     *)
(***************************************************************************)
ItemFeeds == 1

Hundred == <<"1","0","0",".","0","0">>
Eighty == <<"8","0",".","0","0">>
Shoe == <<"S","h","o","e">>
Blank == <<" ", " ">>

\* a variant with a price and a promotional price
Promo(id, price, promo) ==
  ObjV([id |-> NumV(id), price |-> price, promotional_price |-> promo])

\* a variant that tracks its stock
Tracked(id, stock) ==
  ObjV([id |-> NumV(id), price |-> StrV(TenPesos), stock_management |-> BoolV(TRUE),
        stock |-> stock])

PromoVariants ==
  << Promo(<<"2","0">>, StrV(Hundred), StrV(Eighty)),
     Promo(<<"2","1">>, StrV(Hundred), StrV(<<"1","2","0",".","0","0">>)),
     Promo(<<"2","2">>, StrV(Hundred), StrV(Hundred)),
     Promo(<<"2","3">>, StrV(Hundred), StrV(<<"0">>)),
     Promo(<<"2","4">>, StrV(Hundred), StrV(<<"-","5">>)),
     Promo(<<"2","5">>, StrV(Hundred), StrV(<<"a","b","c">>)),
     Promo(<<"2","6">>, NullV, StrV(Eighty)),
     Promo(<<"2","7">>, StrV(<<"1","0","0",".","0","0","4">>),
                        StrV(<<"1","0","0",".","0","0","1">>)),
     Promo(<<"2","8">>, NumV(<<"1","0","0">>), NumV(<<"8","0">>)),
     Promo(<<"2","9">>, StrV(<<"a","b","c">>), StrV(<<"5">>)),
     Promo(<<"3","0">>, StrV(Hundred), StrV(<<>>)),
     Promo(<<"3","1">>, StrV(Hundred), StrV(<<"0",".","0","0","4">>)),
     Promo(<<"3","2">>, StrV(<<>>), NullV),
     Promo(<<"3","3">>, StrV(<<"9","9",".","9","9","6">>), StrV(<<"9","9",".","9","9">>)) >>

StockVariants ==
  << Tracked(<<"1","0">>, NumV(<<"0">>)),
     ObjV([id |-> NumV(<<"1","1">>), price |-> StrV(TenPesos),
           stock_management |-> BoolV(FALSE)]),
     Tracked(<<"1","2">>, NullV),
     ObjV([id |-> NumV(<<"1","3">>), price |-> StrV(TenPesos),
           stock_management |-> BoolV(TRUE)]),
     Tracked(<<"1","4">>, NumV(<<"5">>)),
     Tracked(<<"1","5">>, StrV(<<"3">>)),
     Tracked(<<"1","6">>, NumV(<<"-","1">>)),
     Tracked(<<"1","7">>, StrV(<<"a","b","c">>)),
     ObjV([id |-> NumV(<<"1","8">>), price |-> StrV(TenPesos), stock |-> NumV(<<"0">>)]),
     Tracked(<<"1","9">>, NumV(<<"0",".","5">>)) >>

\* a product with variants
WithVariants(id, variants) ==
  ObjV([id |-> NumV(id), name |-> StrV(Shoe), variants |-> ArrV(variants)])

VariantProducts ==
  { WithVariants(<<"1">>, SubSeq(StockVariants, 1, 2)),
    WithVariants(<<"2">>, PromoVariants),
    WithVariants(<<"3">>, StockVariants),
    WithVariants(<<"4">>, <<ObjV([price |-> StrV(TenPesos)]),
                            ObjV([price |-> StrV(Hundred)])>>),
    WithVariants(<<"5">>, <<Variant(<<"1">>, TenPesos), Variant(<<"1">>, Hundred)>>),
    WithVariants(<<"6">>, <<NullV, Variant(<<"2">>, TenPesos)>>),
    ObjV([handle |-> ObjV([es |-> StrV(<<"z">>)]),
          variants |-> ArrV(<<Variant(<<"1">>, TenPesos)>>)]) }

\* products without variants: the list missing, empty, null, or no array
BareProducts ==
  { Product(<<"8">>),
    ObjV([id |-> NumV(<<"9">>), variants |-> ArrV(<<>>)]),
    ObjV([id |-> NumV(<<"9">>), variants |-> NullV]),
    ObjV([id |-> NumV(<<"9">>), variants |-> StrV(<<"x">>)]),
    ObjV([id |-> NumV(<<"9">>), variants |-> ObjV([id |-> NumV(<<"1">>)])]) }
Nike == <<"N","i","k","e">>
Acme == <<"A","c","m","e">>

\* a product with one priced variant and the fields given
Branded(id, fields) ==
  ObjV(fields @@ [id |-> NumV(id), variants |-> ArrV(<<Variant(<<"1">>, TenPesos)>>)])

BrandProducts ==
  { Branded(<<"4","0">>, [brand |-> StrV(Nike), vendor |-> StrV(Acme)]),
    Branded(<<"4","1">>, [brand |-> ObjV([name |-> StrV(Nike)]), vendor |-> StrV(Acme)]),
    Branded(<<"4","2">>, [brand |-> ObjV([name |-> ObjV([es |-> StrV(Nike)])])]),
    Branded(<<"4","3">>, [brand |-> ObjV([es |-> StrV(<<" ">> \o Nike)])]),
    Branded(<<"4","4">>, [brand |-> StrV(Blank), vendor |-> StrV(Acme)]),
    Branded(<<"4","5">>, [vendor |-> StrV(<<" ">> \o Acme \o <<" ">>),
                          manufacturer |-> StrV(Nike)]),
    Branded(<<"4","6">>, [brand |-> StrV(<<>>), vendor |-> StrV(<<>>),
                          manufacturer |-> StrV(Nike)]),
    Branded(<<"4","7">>, [vendor |-> StrV(Blank), manufacturer |-> StrV(Nike)]),
    Branded(<<"4","8">>, [attributes |-> ObjV([marca |-> StrV(Nike)])]),
    Branded(<<"4","9">>, [attributes |-> ObjV([brand |-> StrV(Acme),
                                               marca |-> StrV(Nike)])]),
    Branded(<<"5","0">>, [manufacturer |-> StrV(Blank),
                          attributes |-> ObjV([brand |-> StrV(Acme)])]),
    Branded(<<"5","1">>, [attributes |-> ObjV([brand |-> StrV(Blank)])]),
    Branded(<<"5","2">>, [brand |-> NullV]) }

ItemProducts == VariantProducts \cup BareProducts \cup BrandProducts

\* the catalogues of the store: one product, or a product next to another
ItemPages ==
  { <<p>> : p \in ItemProducts }
    \cup { <<Product(<<"8">>), p>> : p \in VariantProducts }
    \cup {<<>>}

BrandMaps ==
  { <<>>,
    <<"1",":","A","c","m","e">>,
    <<"2",":","A","c","m","e">>,
    <<"1",":"," ">> }

DefaultBrands == { <<>>, <<" ","D","e","f"," ">> }

InitItems ==
  /\ FEED_CACHE_TTL_SECONDS = 1
  /\ DOMAINS_MAP = <<>>
  /\ VARIANT_MODE \in {"split", "first"}
  /\ BRAND_MAP \in BrandMaps
  /\ DEFAULT_BRAND \in DefaultBrands
  /\ DATABASE_URL = FALSE
  /\ pool = FALSE
  /\ dbInit = "done"
  /\ dbInitPromise = "none"
  /\ tokensTable = EmptyMap
  /\ storeTokens = EmptyMap
  /\ feedCache = EmptyMap
  /\ storeMetrics = EmptyMap
  /\ now = 0
  /\ feed = [r \in Slots |-> IdleFeed]
  /\ inst = IdleInst
  /\ hook = IdleHook
  /\ dash = IdleDash
  /\ hist = InitHist(Budget(ItemFeeds, Cardinality({Store1}), 0, 0, 0))

\* the upstream answers the page request with a catalogue
ItemResponses == { HttpOk(ArrV(page)) : page \in ItemPages }

NextItems ==
  \/ InstallStart(Store1, "t1")
  \/ SlotFree("r1") /\ FeedStart("r1", Store1, <<>>, QueryA)
  \/ FeedAfterToken("r1")
  \/ \E response \in ItemResponses : FeedProducts("r1", response)

SpecItems == InitItems /\ [][NextItems]_vars
(***************************************************************************)
(* SpecCalls: a feed request from the cache lookup over getPublicDomain    *)
(* and fetchAllProducts to setCached, for requests with and without a      *)
(* domain parameter that come one after another                            *)
(***************************************************************************)
CallFeeds == 2
CallFullPages == 1

CallQueries == { NullV, StrV(ACo), StrV(BCo) }

CallDomains == { HttpError(500), HttpOk(ArrV(<<>>)), HttpOk(ArrV(<<StrV(CCo)>>)) }

CallStores == { HttpError(404), HttpOk(ObjV([original_domain |-> StrV(CCo)])) }

CallPages(page) ==
  { HttpOk(FullPageOf(page)), HttpOk(ShortPage), HttpOk(EmptyPage), HttpError(500) }

InitCalls ==
  InitWith({1}, {<<>>}, {FALSE},
           Budget(CallFeeds, Cardinality({Store1}), 0, 0, CallFullPages))

NextCalls ==
  \/ \E inm \in InmChoices, q \in CallQueries : FeedStart("r1", Store1, inm, q)
  \/ FeedAfterToken("r1")
  \/ \E response \in CallDomains : FeedDomains("r1", response)
  \/ \E response \in CallStores : FeedStore("r1", response)
  \/ \E response \in CallPages(feed["r1"].page) : FeedProducts("r1", response)
  \/ InstallStart(Store1, "t1")

SpecCalls == InitCalls /\ [][NextCalls]_vars
(***************************************************************************)
(* SpecEtag: setCached for two stores and over time, with entries that     *)
(* expire as soon as the clock advances, on documents that are equal, that *)
(* differ in one character (the host a.co or b.co of the channel link of a *)
(* feed without items) and that differ in many                             *)
(***************************************************************************)
EtagFeeds == 3
EtagTicks == 1

InitEtag ==
  InitWith({0}, {<<>>}, {FALSE}, Budget(EtagFeeds, Cardinality(Stores), 0, EtagTicks, 0))

EtagQueries == {QueryA, QueryB}
EtagResponses == {OkEmpty, OkShort}

NextEtag ==
  \/ \E sid \in Stores, q \in EtagQueries : FeedStart("r1", sid, <<>>, q)
  \/ FeedAfterToken("r1")
  \/ \E response \in EtagResponses : FeedProducts("r1", response)
  \/ \E sid \in Stores : sid \notin DOMAIN storeTokens /\ InstallStart(sid, "t1")
  \/ Tick(MsPerSecond)

SpecEtag == InitEtag /\ [][NextEtag]_vars
(***************************************************************************)
(* SpecHas: hasToken in the dashboard and getToken in the feed, with and   *)
(* without a database, under installs and uninstalls whose statements      *)
(* succeed or fail                                                         *)
(***************************************************************************)
HasFeeds == 1
HasInstalls == 1
HasHooks == 1
HasViews == 1

UninstallOf(sid) == [store_id |-> sid, event |-> "app/uninstalled"]

InitHas ==
  InitWith({1}, {<<>>}, BOOLEAN,
           Budget(HasFeeds, HasInstalls, HasHooks, 0, 0) @@ [views |-> HasViews])

Uninstall1 == UninstallOf(Store1)
UninstallSigned == HmacSha256(TN_CLIENT_SECRET, Uninstall1)

NextHas ==
  \/ \E sid \in Stores : DashStart(sid)
  \/ \E dbOk \in BOOLEAN : DashTokenResult(dbOk)
  \/ FeedStart("r1", Store1, <<>>, QueryA)
  \/ \E dbOk \in BOOLEAN : FeedTokenResult("r1", dbOk)
  \/ FeedAfterToken("r1")
  \/ FeedProducts("r1", OkShort)
  \/ InstallStart(Store1, "t1")
  \/ \E dbOk \in BOOLEAN : InstallDbWrite(dbOk)
  \/ WebhookStart(UninstallSigned, Uninstall1)
  \/ \E dbOk \in BOOLEAN : WebhookDbDelete(dbOk)
  \/ \E ok \in BOOLEAN : DbInitDone(ok)

SpecHas == InitHas /\ [][NextHas]_vars

(***************************************************************************)
(* The revision with initDbOnce (src/unnamed/part_002): pool starts        *)
(* undefined, nothing runs at module load, and saveToken, getToken,        *)
(* hasToken and deleteToken each await initDbOnce() before they read pool. *)
(* inst, feed[r], dash and hook hold the calls of the four functions in    *)
(* flight.  The history counts the pools created (hist.pools), the runs of *)
(* the query of ensureSchema (hist.schemas) and the calls of initDbOnce    *)
(* that found the initialisation running (hist.joined), and records the    *)
(* state of dbInitPromise at each read of pool by a token function         *)
(* (hist.reads) and a failed initialisation (hist.initFailed).             *)
(***************************************************************************)
OnceSaves == 1
OnceGets == 2
OnceHas == 1
OnceDeletes == 1

\* initDbOnce(): the promise and the pool after the call, and what the call
\* started
initDbOnce ==
  IF dbInitPromise # "none"
  THEN [promise |-> dbInitPromise, pool |-> pool, pools |-> 0, schemas |-> 0,
        joined |-> IF dbInitPromise = "pending" THEN 1 ELSE 0]
  ELSE IF ~DATABASE_URL
  THEN [promise |-> "settled", pool |-> FALSE, pools |-> 0, schemas |-> 0,
        joined |-> 0]
  ELSE [promise |-> "pending", pool |-> TRUE, pools |-> 1, schemas |-> 1,
        joined |-> 0]

\* the call initDbOnce() made by a token function, h being the history the
\* caller leaves
CallInit(h) ==
  /\ dbInitPromise' = initDbOnce.promise
  /\ pool' = initDbOnce.pool
  /\ hist' = [h EXCEPT !.pools = @ + initDbOnce.pools,
                       !.schemas = @ + initDbOnce.schemas,
                       !.joined = @ + initDbOnce.joined]

\* a token function that reads pool without waiting
InitAwaited_NoWait == TRUE

\* await initDbOnce() resumes: the promise is settled
InitAwaited == dbInitPromise = "settled"

\* the history after a token function has read pool
PoolRead(h) == [h EXCEPT !.reads = @ \cup {dbInitPromise}]

\* the query of ensureSchema answers, or fails and the catch handler runs
SchemaDone(ok) ==
  /\ dbInitPromise = "pending"
  /\ dbInitPromise' = "settled"
  /\ pool' = IF ok THEN pool ELSE FALSE
  /\ hist' = [hist EXCEPT !.initFailed = ~ok]
  /\ UNCHANGED <<config, dbInit, tokensTable, storeTokens, feedCache, storeMetrics,
                 now, feed, inst, hook, dash>>

\* saveToken(sid, tok) to its first await
SaveStart(sid, tok) ==
  /\ inst.pc \in {"idle", "done"}
  /\ hist.left.installs > 0
  /\ storeTokens' = MapSet(storeTokens, sid, tok)
  /\ inst' = [pc |-> "awaitInit", sid |-> sid, tok |-> tok, status |-> 0]
  /\ CallInit([hist EXCEPT !.left.installs = @ - 1])
  /\ UNCHANGED <<config, dbInit, tokensTable, feedCache, storeMetrics, now, feed,
                 hook, dash>>

\* saveToken after the await: if (!pool) return, else the upsert is sent
SaveAfterInit ==
  /\ inst.pc = "awaitInit"
  /\ InitAwaited
  /\ inst' = [inst EXCEPT !.pc = IF pool THEN "dbWrite" ELSE "done",
                          !.status = IF pool THEN 0 ELSE 302]
  /\ hist' = PoolRead(IF pool THEN hist ELSE Saved(hist, inst.sid, inst.tok))
  /\ UNCHANGED <<config, dbInit, dbInitPromise, pool, tokensTable, storeTokens,
                 feedCache, storeMetrics, now, feed, hook, dash>>

\* getToken(sid) to its first await
GetStart(r, sid) ==
  /\ feed[r].pc \in {"idle", "done"}
  /\ hist.left.feeds > 0
  /\ feed' = [feed EXCEPT ![r] = [IdleFeed EXCEPT !.sid = sid, !.pc = "awaitInit"]]
  /\ CallInit([hist EXCEPT !.left.feeds = @ - 1])
  /\ UNCHANGED <<config, dbInit, tokensTable, storeTokens, feedCache, storeMetrics,
                 now, inst, hook, dash>>

\* getToken after the await: the SELECT is sent, or the memory entry returned
GetAfterInit(r) ==
  /\ feed[r].pc = "awaitInit"
  /\ InitAwaited
  /\ feed' = [feed EXCEPT ![r].pc = IF pool THEN "getToken" ELSE "haveToken",
                          ![r].token = IF pool THEN NoToken
                                       ELSE getToken(feed[r].sid, FALSE, FALSE)]
  /\ hist' = PoolRead(hist)
  /\ UNCHANGED <<config, dbInit, dbInitPromise, pool, tokensTable, storeTokens,
                 feedCache, storeMetrics, now, inst, hook, dash>>

\* hasToken(sid) to its first await, or to its return for an empty store id
HasStart(sid) ==
  /\ dash.pc \in {"idle", "done"}
  /\ hist.left.views > 0
  /\ IF sid = <<>>
     THEN /\ dash' = [pc |-> "done", sid |-> sid, has |-> FALSE]
          /\ hist' = [hist EXCEPT !.left.views = @ - 1]
          /\ UNCHANGED <<dbInitPromise, pool>>
     ELSE /\ dash' = [pc |-> "awaitInit", sid |-> sid, has |-> FALSE]
          /\ CallInit([hist EXCEPT !.left.views = @ - 1])
  /\ UNCHANGED <<config, dbInit, tokensTable, storeTokens, feedCache, storeMetrics,
                 now, feed, inst, hook>>

\* hasToken after the await: the SELECT is sent, or the memory entry tested
HasAfterInit ==
  /\ dash.pc = "awaitInit"
  /\ InitAwaited
  /\ dash' = [dash EXCEPT !.pc = IF pool THEN "hasToken" ELSE "done",
                          !.has = IF pool THEN FALSE
                                  ELSE hasToken(dash.sid, FALSE, FALSE)]
  /\ hist' = PoolRead(hist)
  /\ UNCHANGED <<config, dbInit, dbInitPromise, pool, tokensTable, storeTokens,
                 feedCache, storeMetrics, now, feed, inst, hook>>

\* deleteToken(sid) to its first await
DeleteStart(sid) ==
  /\ hook.pc \in {"idle", "done"}
  /\ hist.left.hooks > 0
  /\ storeTokens' = MapDelete(storeTokens, sid)
  /\ hook' = [IdleHook EXCEPT !.pc = "awaitInit", !.sid = sid]
  /\ CallInit([hist EXCEPT !.left.hooks = @ - 1])
  /\ UNCHANGED <<config, dbInit, tokensTable, feedCache, storeMetrics, now, feed,
                 inst, dash>>

\* deleteToken after the await: if (!pool) return, else the DELETE is sent
DeleteAfterInit ==
  /\ hook.pc = "awaitInit"
  /\ InitAwaited
  /\ hook' = [hook EXCEPT !.pc = IF pool THEN "dbDelete" ELSE "done",
                          !.status = IF pool THEN 0 ELSE 200]
  /\ hist' = PoolRead(hist)
  /\ UNCHANGED <<config, dbInit, dbInitPromise, pool, tokensTable, storeTokens,
                 feedCache, storeMetrics, now, feed, inst, dash>>

InitOnce ==
  /\ FEED_CACHE_TTL_SECONDS = 1
  /\ DOMAINS_MAP = <<>>
  /\ VARIANT_MODE = "split"
  /\ BRAND_MAP = <<>>
  /\ DEFAULT_BRAND = <<>>
  /\ DATABASE_URL \in BOOLEAN
  /\ pool = FALSE
  /\ dbInit = "done"
  /\ dbInitPromise = "none"
  /\ tokensTable \in {EmptyMap, MapSet(EmptyMap, Store1, "t0")}
  /\ storeTokens = EmptyMap
  /\ feedCache = EmptyMap
  /\ storeMetrics = EmptyMap
  /\ now = 0
  /\ feed = [r \in Slots |-> IdleFeed]
  /\ inst = IdleInst
  /\ hook = IdleHook
  /\ dash = IdleDash
  /\ hist = InitHist(Budget(OnceGets, OnceSaves, OnceDeletes, 0, 0)
                       @@ [views |-> OnceHas])
              @@ [pools |-> 0, schemas |-> 0, joined |-> 0, reads |-> {},
                  initFailed |-> FALSE]

NextOnce ==
  \/ \E ok \in BOOLEAN : SchemaDone(ok)
  \/ SaveStart(Store1, "t1")
  \/ SaveAfterInit
  \/ \E dbOk \in BOOLEAN : InstallDbWrite(dbOk)
  \/ \E r \in Slots : SlotFree(r) /\ GetStart(r, Store1)
  \/ \E r \in Slots : GetAfterInit(r)
  \/ \E r \in Slots, dbOk \in BOOLEAN : FeedTokenResult(r, dbOk)
  \/ \E sid \in {<<>>, Store1} : HasStart(sid)
  \/ HasAfterInit
  \/ \E dbOk \in BOOLEAN : DashTokenResult(dbOk)
  \/ DeleteStart(Store1)
  \/ DeleteAfterInit
  \/ \E dbOk \in BOOLEAN : WebhookDbDelete(dbOk)

SpecOnce == InitOnce /\ [][NextOnce]_vars

(***************************************************************************)
(* Claims                                                                  *)
(***************************************************************************)
\* no row in the tokens table and no entry in the in-memory map
NoCredential(s) == RowToken(s) = NoToken /\ MemoryToken(s) = NoToken

\* request r gets the answer of its credential lookup in this step
TokenLookup(r) == feed[r].pc \in {"idle", "done", "getToken"} /\ feed'[r].pc = "haveToken"

\* request r, holding the answer of its lookup, takes its next step
AfterLookup(r) == feed[r].pc = "haveToken" /\ feed'[r] # feed[r]

\* C1: a feed request for a store that has no stored credential when the
\* request looks it up (no row, no in-memory entry) finds no token, and ends
\* with 401 and no document, whatever the feed cache holds for the store.
C1_NoCredentialUnauthorized ==
  [][\A r \in Slots :
       /\ (TokenLookup(r) /\ NoCredential(feed'[r].sid)) => feed'[r].token = NoToken
       /\ (AfterLookup(r) /\ feed[r].token = NoToken) =>
            /\ feed'[r].pc = "done"
            /\ feed'[r].status = 401
            /\ feed'[r].body = NoDoc
            /\ feed'[r].etagHdr = <<>>
            /\ feed'[r].calls = <<>>
            /\ feedCache' = feedCache]_vars

\* a request was answered 401 while a non-expired cache entry of its store,
\* which has no credential, exists
C1_Witness ==
  \E r \in Slots :
    /\ feed[r].pc = "done" /\ feed[r].status = 401
    /\ NoCredential(feed[r].sid)
    /\ feed[r].sid \in DOMAIN feedCache
    /\ now <= feedCache[feed[r].sid].expiresAt

\* C6 (as claimed): once a verified app/uninstalled webhook for a store has
\* been answered 200, and until a credential of the store is saved again,
\* getToken returns null for the store.
C6_UninstallDeletesCredential ==
  \A s \in Stores : hist.uninstalled[s] = "yes" => GetTokenResults(s) = {NoToken}

\* C7 (as claimed): after saveToken(S, t2) has completed following an
\* earlier saveToken(S, t1), getToken(S) returns t2.
C7_ReinstallOverwrites ==
  \A s \in Stores :
    ( /\ hist.prevSaved[s] # NoToken
      /\ hist.lastSaved[s] # NoToken
      /\ hist.prevSaved[s] # hist.lastSaved[s]
      /\ inst.pc # "dbWrite" )
    => GetTokenResults(s) = {hist.lastSaved[s]}

\* request r is answered in this step with a document or with 304
Served(r) ==
  feed[r].pc # "done" /\ feed'[r].pc = "done" /\ feed'[r].status \in {200, 304}

\* request r calls getCached in this step
CacheLookup(r) ==
  feed[r].pc = "haveToken" /\ feed[r].token # NoToken /\ feed'[r] # feed[r]

\* request r calls setCached in this step
CachePut(r) == feed[r].pc = "products" /\ Served(r)

\* the cache is the same but for the entry of store s
OthersUnchanged(s) ==
  /\ DOMAIN feedCache' \ {s} = DOMAIN feedCache \ {s}
  /\ \A k \in DOMAIN feedCache \ {s} : feedCache'[k] = feedCache[k]

\* C2: a feed request of an installed store that is served, from a cache
\* entry that has not expired or from the document it generated itself, ends
\* with 304 and no body when its If-None-Match value with the double quotes
\* removed equals the fingerprint of the store's current document, and with
\* 200, that document and an ETag header of the quoted fingerprint otherwise.
C2_ConditionalRequest ==
  [][\A r \in Slots : Served(r) =>
       LET rec == feed'[r]
           current == feedCache'[rec.sid]
       IN  /\ rec.sid \in DOMAIN feedCache'
           /\ rec.token # NoToken
           /\ IF StripQuotes(rec.inm) = current.etag
              THEN rec.status = 304 /\ rec.body = NoDoc /\ rec.etagHdr = <<>>
              ELSE /\ rec.status = 200
                   /\ rec.body = current.xml
                   /\ rec.etagHdr = Quoted(current.etag)]_vars

\* a request that generated its document was answered 304
C2_Witness ==
  \E r \in Slots :
    /\ feed[r].pc = "done" /\ feed[r].status = 304
    /\ feed[r].cached = <<>>
    /\ feed[r].calls # <<>>
    /\ feed[r].inm = Quoted(Sha1Hex(FeedXml(feed[r].all, feed[r].storeDomain,
                                           feed[r].sid)))

\* C3: getCached of a store without an entry returns null and changes
\* nothing; with an entry and now > expiresAt it returns null and removes the
\* entry of that store only; with now <= expiresAt it returns the entry and
\* leaves the cache as it is.
C3_GetCached ==
  [][\A r \in Slots : CacheLookup(r) =>
       LET s == feed[r].sid
           got == feed'[r].cached
       IN  IF s \notin DOMAIN feedCache
           THEN got = <<>> /\ feedCache' = feedCache /\ feed'[r].pc # "done"
           ELSE /\ now > feedCache[s].expiresAt =>
                     /\ got = <<>>
                     /\ s \notin DOMAIN feedCache'
                     /\ OthersUnchanged(s)
                     /\ feed'[r].pc # "done"
                /\ now <= feedCache[s].expiresAt =>
                     /\ got = <<feedCache[s]>>
                     /\ feedCache' = feedCache
                     /\ feed'[r].pc = "done"]_vars

\* a request goes on to generate after getCached evicted the entry that an
\* earlier request had put
C3_Witness ==
  \E r \in Slots :
    /\ feed[r].pc = "products"
    /\ feed[r].sid \in DOMAIN hist.lastPut
    /\ feed[r].sid \notin DOMAIN feedCache
    /\ now > 0

\* C4: setCached(store, xml) leaves for the store the entry {xml,
\* fingerprint of xml, generatedAt = now, expiresAt = now + TTL}, TTL being
\* the configured seconds in milliseconds and never negative, the same for
\* every store, and leaves the entries of the other stores as they are.
C4_SetCached ==
  [][\A r \in Slots : CachePut(r) =>
       LET s == feed[r].sid
           xml == FeedXml(feed'[r].all, feed[r].storeDomain, s)
           ttl == IF FEED_CACHE_TTL_SECONDS >= 0
                  THEN FEED_CACHE_TTL_SECONDS * MsPerSecond ELSE 0
       IN  /\ s \in DOMAIN feedCache'
           /\ feedCache'[s] = [xml |-> xml, etag |-> Sha1Hex(xml),
                               generatedAt |-> now, expiresAt |-> now + ttl]
           /\ feedCache'[s].expiresAt >= feedCache'[s].generatedAt
           /\ OthersUnchanged(s)
           /\ \A k \in DOMAIN feedCache' :
                feedCache'[k].expiresAt - feedCache'[k].generatedAt = ttl]_vars

\* two stores have entries put at different times, under a configured time
\* to live below zero
C4_Witness ==
  /\ FEED_CACHE_TTL_SECONDS < 0
  /\ \E s, t \in DOMAIN feedCache :
       s # t /\ feedCache[s].generatedAt > feedCache[t].generatedAt

\* C5: whatever the interleaving of the feed requests, the entry setCached
\* leaves is the document of the request that called it with the hash of
\* that document, so the entry of a store is the pair of the last setCached
\* for it; and an entry changes only by being replaced by a setCached for
\* its store or by being evicted.
C5_LastWriterWins ==
  [][\A s \in Stores :
       /\ \A r \in Slots : (CachePut(r) /\ feed[r].sid = s) =>
            /\ s \in DOMAIN feedCache'
            /\ feedCache'[s].xml = FeedXml(feed'[r].all, feed[r].storeDomain, s)
       /\ s \in DOMAIN feedCache' =>
            /\ feedCache'[s].etag = Sha1Hex(feedCache'[s].xml)
            /\ s \in DOMAIN hist'.lastPut
            /\ feedCache'[s].xml = hist'.lastPut[s]
       /\ (s \in DOMAIN feedCache /\ s \in DOMAIN feedCache'
             /\ feedCache'[s] # feedCache[s]) =>
            \E r \in Slots : CachePut(r) /\ feed[r].sid = s]_vars

\* two requests for one store both missed the cache, generated different
\* documents and were answered; the entry is the document of one of them
C5_Witness ==
  \E s \in DOMAIN feedCache :
    /\ \A r \in Slots :
         /\ feed[r].pc = "done" /\ feed[r].status = 200
         /\ feed[r].sid = s /\ feed[r].cached = <<>>
    /\ feed["r1"].body # feed["r2"].body
    /\ feedCache[s].xml \in {feed["r1"].body, feed["r2"].body}

\* getPublicDomain of request r has returned
Resolved(r) == feed[r].storeDomain # NullS

\* request r called the upstream path
Called(r, path) == \E i \in DOMAIN feed[r].calls : feed[r].calls[i].path = path

\* the first hostname of the steps, in order
RECURSIVE FirstHit(_)
FirstHit(steps) ==
  IF steps = <<>> THEN NullS
  ELSE IF Truthy(Head(steps)) THEN Head(steps)
  ELSE FirstHit(Tail(steps))

\* the hostname and the remote calls of request r follow from the hostnames
\* of the steps in order of precedence
Precedence(r, query, map, domains, store, fallback) ==
  /\ feed[r].storeDomain = FirstHit(<<query, map, domains, store, fallback>>)
  /\ Called(r, "/domains") <=> ~Truthy(FirstHit(<<query, map>>))
  /\ Called(r, "/store") <=> ~Truthy(FirstHit(<<query, map, domains>>))

\* C8 (as claimed): the hostname is the first hit of: the override if it is
\* a bare host and not a platform subdomain; the DOMAINS_MAP entry if it is a
\* bare host; the preferred entry of /domains; the preferred entry of
\* /store or else its alternate fields; the fallback.  A step is consulted
\* only when the steps before it gave nothing.
C8_AsClaimed ==
  \A r \in Slots : Resolved(r) =>
    Precedence(r, QueryHost(feed[r].query),
               DomainsMapHost(feed[r].sid, DOMAINS_MAP),
               DomainsPick(feed[r].domainsRes),
               StoreChoice(feed[r].storeRes),
               FallbackDomain(feed[r].sid))

\* C8 (amended): as claimed, but what step 4 chooses from /store counts as
\* a hit only if it is a bare host; when it is not, the hostname is the
\* fallback, also when an alternate field of /store holds a bare host.
C8_Precedence ==
  \A r \in Slots : Resolved(r) =>
    LET choice == StoreChoice(feed[r].storeRes)
    IN  Precedence(r, QueryHost(feed[r].query),
                   DomainsMapHost(feed[r].sid, DOMAINS_MAP),
                   DomainsPick(feed[r].domainsRes),
                   IF isLikelyHost(choice) THEN choice ELSE NullS,
                   FallbackDomain(feed[r].sid))

\* /store answered with a domain list whose preferred entry is not a bare
\* host and with a bare host in original_domain; the hostname is the
\* fallback
C8_Witness ==
  \E r \in Slots :
    /\ Resolved(r)
    /\ Truthy(StoreChoice(feed[r].storeRes))
    /\ ~isLikelyHost(StoreChoice(feed[r].storeRes))
    /\ isLikelyHost(normalizeDomain(Field(feed[r].storeRes.body, "original_domain")))
    /\ feed[r].storeDomain = FallbackDomain(feed[r].sid)

\* C9: whatever the /domains and /store calls answer, the request does not
\* end there: a failed /domains call is followed by the /store call, the
\* /store call by the products call, getPublicDomain returns a non-empty
\* string, and a request ends with 500 only from its products call.
C9_ResolutionNeverFails ==
  [][\A r \in Slots :
       /\ (feed[r].pc \in {"domains", "store"} /\ feed'[r] # feed[r]) =>
            /\ feed'[r].pc # "done"
            /\ feed'[r].status = 0
            /\ storeMetrics' = storeMetrics
            /\ (feed[r].pc = "domains" /\ feed'[r].domainsRes.thrown) =>
                 feed'[r].pc = "store"
            /\ feed[r].pc = "store" => feed'[r].pc = "products"
            /\ feed'[r].pc = "products" =>
                 feed'[r].storeDomain # NullS /\ feed'[r].storeDomain # <<>>
       /\ (feed[r].status # 500 /\ feed'[r].status = 500) =>
            feed[r].pc = "products"]_vars

\* a request was answered 200 after /domains answered 401 and /store failed
\* in transport
C9_Witness ==
  \E r \in Slots :
    /\ feed[r].pc = "done" /\ feed[r].status = 200
    /\ feed[r].domainsRes = Thrown(401)
    /\ feed[r].storeRes = Thrown(0)

\* C10: with no domain parameter, no DOMAINS_MAP pair of the store, and the
\* /domains and /store calls both failed, getPublicDomain returns the store
\* id followed by ".tiendanube.com".
C10_Fallback ==
  \A r \in Slots :
    ( /\ feed[r].query = NullV
      /\ FirstWithPrefix(MapPairs(DOMAINS_MAP), feed[r].sid \o <<":">>, 1) = 0
      /\ feed[r].domainsRes.thrown
      /\ feed[r].storeRes.thrown )
    => feed[r].storeDomain =
         feed[r].sid \o <<".","t","i","e","n","d","a","n","u","b","e",".","c","o","m">>

\* the fallback was returned under a DOMAINS_MAP that has a pair of another
\* store only
C10_Witness ==
  \E r \in Slots :
    /\ feed[r].pc = "products"
    /\ feed[r].query = NullV
    /\ DOMAINS_MAP # <<>>
    /\ FirstWithPrefix(MapPairs(DOMAINS_MAP), feed[r].sid \o <<":">>, 1) = 0
    /\ feed[r].domainsRes.thrown /\ feed[r].storeRes.thrown
    /\ feed[r].storeDomain = <<"1">> \o PlatformSuffix

\* request r gets the answer to a products page request in this step
PageAnswered(r) == feed[r].pc = "products" /\ feed'[r] # feed[r]

\* the upstream answered with a success status and a JSON body
Success(response) ==
  response.kind = "http" /\ response.status \in 200..299 /\ response.json

\* the number of records of a body
Records(body) == IF body.t = "arr" THEN Len(body.o) ELSE 0

\* the page numbers of the products requests of request r, in request order
PagesRequested(rec) ==
  LET calls == SelectSeq(rec.calls, LAMBDA c : c.path = "/products")
  IN  [i \in DOMAIN calls |-> calls[i].page]

\* C11: fetchAllProducts requests the pages 1, 2, 3, ... in order; a page
\* with records is appended whole to what was received before; the next
\* page is requested exactly when the page just received holds at least the
\* page size of records, and otherwise the fetch returns all it received.
C11_Pagination ==
  [][\A r \in Slots :
       /\ \A i \in DOMAIN PagesRequested(feed'[r]) : PagesRequested(feed'[r])[i] = i
       /\ (PageAnswered(r) /\ Success(feed'[r].pageRes)) =>
            LET data == feed'[r].pageRes.body
                asked == PagesRequested(feed[r])
            IN  /\ asked # <<>> /\ asked[Len(asked)] = feed[r].page
                /\ feed'[r].all =
                     IF Records(data) > 0 THEN feed[r].all \o data.o ELSE feed[r].all
                /\ IF Records(data) >= 200
                   THEN /\ feed'[r].pc = "products"
                        /\ PagesRequested(feed'[r]) = Append(asked, feed[r].page + 1)
                   ELSE /\ feed'[r].pc = "done"
                        /\ feed'[r].status \in {200, 304}
                        /\ PagesRequested(feed'[r]) = asked
                        /\ storeMetrics'[feed[r].sid].last_products_count =
                             Len(feed'[r].all)]_vars

\* a request was answered after two full pages, the second holding the
\* records of the first once more, and a short page: all records are kept
C11_Witness ==
  \E r \in Slots :
    /\ feed[r].pc = "done" /\ feed[r].status = 200
    /\ PagesRequested(feed[r]) = <<1, 2, 3>>
    /\ Len(feed[r].all) = 401
    /\ feed[r].all[1] = feed[r].all[201]
    /\ feed[r].all[401] # feed[r].all[400]

\* C12: when a products page request gets a non-success HTTP status, on the
\* first page or on a later one, the request ends with 500 and no document,
\* the error recorded carries the status, no further page is requested, and
\* nothing is put into the cache: the cache is left as it was.
C12_FetchAborts ==
  [][\A r \in Slots :
       LET res == feed'[r].pageRes
       IN  (PageAnswered(r) /\ res.kind = "http" /\ res.status \notin 200..299) =>
             /\ feed'[r].pc = "done"
             /\ feed'[r].status = 500
             /\ feed'[r].body = NoDoc
             /\ feed'[r].etagHdr = <<>>
             /\ feed'[r].calls = feed[r].calls
             /\ feedCache' = feedCache
             /\ hist'.lastPut = hist.lastPut
             /\ storeMetrics'[feed[r].sid].last_error = res.status
             /\ storeMetrics'[feed[r].sid].feed_errors =
                  getMetrics(feed[r].sid).feed_errors + 1]_vars

\* a request was answered 500 when its second page request got 429 after a
\* full first page, while the store has the entry another request has put
C12_Witness ==
  \E r \in Slots :
    /\ feed[r].pc = "done" /\ feed[r].status = 500
    /\ feed[r].pageRes = HttpError(429)
    /\ feed[r].page = 2 /\ Len(feed[r].all) = 200
    /\ feed[r].sid \in DOMAIN feedCache

\* request r was answered from the products it fetched
Flattened(r) ==
  feed[r].pc = "done" /\ feed[r].status \in {200, 304} /\ feed[r].pageRes # NoResponse

\* const variants of flattenItems for product p
VariantsOf(p) ==
  IF IsArray(Field(p, "variants")) THEN Field(p, "variants").o ELSE <<>>

\* const productId of flattenItems for product p
ProductIdOf(p) ==
  IF ~IsNullish(Field(p, "id")) THEN StringOf(Field(p, "id"))
  ELSE normalizeText(getLocalized(Field(p, "handle")))

\* the number of items pushed for product p
ItemCount(p) ==
  IF VariantsOf(p) = <<>> \/ VARIANT_MODE = "first" THEN 1 ELSE Len(VariantsOf(p))

\* the number of items pushed for the products before the k-th
RECURSIVE ItemsBefore(_, _)
ItemsBefore(products, k) ==
  IF k <= 1 THEN 0
  ELSE ItemsBefore(products, k - 1) + ItemCount(products[k - 1])

\* the items of the k-th product fetched in the list of request rec
ItemsOf(rec, k) ==
  SubSeq(rec.flat, ItemsBefore(rec.all, k) + 1, ItemsBefore(rec.all, k + 1))

\* the item_id "{product_id}-{variant_id}"
SplitId(p, v) == ProductIdOf(p) \o <<"-">> \o StringOf(Field(v, "id"))

\* C13: in split mode flattenItems produces, for every product with N >= 1
\* variants, exactly N items in the order of the variants, each with a
\* distinct item_id "{product_id}-{variant_id}".
C13_SplitItems ==
  \A r \in Slots :
    (Flattened(r) /\ VARIANT_MODE = "split") =>
      /\ Len(feed[r].flat) = ItemsBefore(feed[r].all, Len(feed[r].all) + 1)
      /\ \A k \in DOMAIN feed[r].all :
           LET p == feed[r].all[k]
               variants == VariantsOf(p)
               items == ItemsOf(feed[r], k)
           IN  Len(variants) >= 1 =>
                 /\ Len(items) = Len(variants)
                 /\ \A i \in DOMAIN variants :
                      /\ items[i].rawVariant = variants[i]
                      /\ items[i].item_id = SplitId(p, variants[i])
                 /\ \A i, j \in DOMAIN items :
                      i # j => items[i].item_id # items[j].item_id

\* the texts of the g:id elements of a document, in document order
ItemIds(doc) ==
  LET ids == SelectSeq(doc, LAMBDA l : l[1] = "g:id")
  IN  [i \in DOMAIN ids |-> ids[i][2]]

\* C14: no two <item> elements of a document that buildXmlFeed produced from
\* the list fetchAllProducts returned carry the same g:id, in either variant
\* mode.
C14_UniqueIds ==
  \A r \in Slots :
    (feed[r].pc = "done" /\ feed[r].status = 200) =>
      \A i, j \in DOMAIN ItemIds(feed[r].body) :
        i # j => ItemIds(feed[r].body)[i] # ItemIds(feed[r].body)[j]

\* C15: in first mode flattenItems produces exactly one item per product;
\* the item of a product with variants is derived from the first variant of
\* its list, and its item_id is the product_id.
C15_FirstItems ==
  \A r \in Slots :
    (Flattened(r) /\ VARIANT_MODE = "first") =>
      /\ Len(feed[r].flat) = Len(feed[r].all)
      /\ \A k \in DOMAIN feed[r].all :
           LET p == feed[r].all[k]
               variants == VariantsOf(p)
               items == ItemsOf(feed[r], k)
           IN  /\ Len(items) = 1
               /\ items[1].rawProduct = p
               /\ Len(variants) >= 1 =>
                    /\ items[1].rawVariant = variants[1]
                    /\ items[1].item_id = ProductIdOf(p)

\* the number of <item> elements of a document
ItemElements(doc) == Len(SelectSeq(doc, LAMBDA l : l[1] = "item"))

\* the items of a list that have a price
Priced(items) == SelectSeq(items, LAMBDA it : Truthy(it.price))

\* C16: a product with zero variants (the list missing, no array, or empty)
\* yields exactly one precursor item, out_of_stock, with price and sale_price
\* null, in either variant mode, and that item is no <item> element of the
\* document: the document has one <item> per item with a price, each of a
\* product with variants.
C16_NoVariants ==
  \A r \in Slots :
    Flattened(r) =>
      /\ Len(feed[r].flat) = ItemsBefore(feed[r].all, Len(feed[r].all) + 1)
      /\ \A k \in DOMAIN feed[r].all :
           LET p == feed[r].all[k]
               items == ItemsOf(feed[r], k)
           IN  VariantsOf(p) = <<>> =>
                 /\ Len(items) = 1
                 /\ items[1].rawProduct = p
                 /\ items[1].item_id = ProductIdOf(p)
                 /\ items[1].availability = OutOfStock
                 /\ items[1].price = NullS
                 /\ items[1].sale_price = NullS
      /\ feed[r].status = 200 =>
           /\ ItemElements(feed[r].body) = Len(Priced(feed[r].flat))
           /\ \A i \in DOMAIN Priced(feed[r].flat) :
                VariantsOf(Priced(feed[r].flat)[i].rawProduct) # <<>>

\* a document was served for a product without variants followed by a
\* product with priced variants: its <item> elements are those of the second
C16_Witness ==
  \E r \in Slots :
    /\ Flattened(r) /\ feed[r].status = 200
    /\ Len(feed[r].all) = 2
    /\ VariantsOf(feed[r].all[1]) = <<>>
    /\ VariantsOf(feed[r].all[2]) # <<>>
    /\ ItemElements(feed[r].body) = Len(feed[r].flat) - 1
    /\ ItemElements(feed[r].body) >= 2

\* thousandths in a cent
MilliPerCent == 10

\* the items of a list that were built from a variant
FromVariant(items) == SelectSeq(items, LAMBDA it : VariantsOf(it.rawProduct) # <<>>)

\* a price field is present and numeric
Numeric(v) == ~IsNullish(v) /\ v # StrV(<<>>) /\ ~ToNumber(v).nan

\* C17 as claimed: the price of the item is the price of the variant, and
\* sale_price is the promotional price exactly when both are present and
\* numeric and 0 < promotional_price < price, and null otherwise.
C17_AsClaimed ==
  \A r \in Slots :
    Flattened(r) =>
      \A i \in DOMAIN FromVariant(feed[r].flat) :
        LET it == FromVariant(feed[r].flat)[i]
            price == Field(it.rawVariant, "price")
            promo == Field(it.rawVariant, "promotional_price")
        IN  /\ Numeric(price) =>
                 Truthy(it.price) /\ ParseDecimal(it.price) = ToNumber(price)
            /\ IF /\ Numeric(price) /\ Numeric(promo)
                  /\ 0 < ToNumber(promo).n /\ ToNumber(promo).n < ToNumber(price).n
               THEN Truthy(it.sale_price) /\ ParseDecimal(it.sale_price) = ToNumber(promo)
               ELSE it.sale_price = NullS

\* C17: the price of the item is the price of the variant written with two
\* decimals, null when it is absent, empty or no finite number; sale_price
\* is the promotional price written the same way exactly when both texts
\* are not null and, as the numbers those texts denote, 0 < promotional
\* price < price; in every other case sale_price is null.
C17_Prices ==
  \A r \in Slots :
    Flattened(r) =>
      \A i \in DOMAIN FromVariant(feed[r].flat) :
        LET it == FromVariant(feed[r].flat)[i]
            price == toMoney(Field(it.rawVariant, "price"))
            promo == toMoney(Field(it.rawVariant, "promotional_price"))
            raw == ToNumber(Field(it.rawVariant, "price")).n
            cents == ParseDecimal(price).n
        IN  /\ it.price = price
            /\ Numeric(Field(it.rawVariant, "price")) <=> price # NullS
            /\ price # NullS =>
                 /\ Len(price) > 3 /\ price[Len(price) - 2] = "."
                 /\ 2 * (cents - raw) \in -MilliPerCent..MilliPerCent
            /\ IF /\ price # NullS /\ promo # NullS
                  /\ 0 < ParseDecimal(promo).n
                  /\ ParseDecimal(promo).n < ParseDecimal(price).n
               THEN it.sale_price = promo
               ELSE it.sale_price = NullS

\* the variants of a product were split: 100.00 with 80.00 gives the sale
\* price 80.00, 100.00 with 120.00 and with 100.00 none, and 100.004 with
\* 100.001 the price 100.00 and no sale price
C17_Witness ==
  \E r \in Slots :
    /\ Flattened(r) /\ VARIANT_MODE = "split"
    /\ Len(feed[r].flat) = Len(PromoVariants)
    /\ \A i \in DOMAIN feed[r].flat : feed[r].flat[i].rawVariant = PromoVariants[i]
    /\ feed[r].flat[1].price = Hundred /\ feed[r].flat[1].sale_price = Eighty
    /\ feed[r].flat[2].price = Hundred /\ feed[r].flat[2].sale_price = NullS
    /\ feed[r].flat[3].price = Hundred /\ feed[r].flat[3].sale_price = NullS
    /\ feed[r].flat[8].price = Hundred /\ feed[r].flat[8].sale_price = NullS
    /\ feed[r].flat[9].price = Hundred /\ feed[r].flat[9].sale_price = Eighty

\* the variant tracks its stock
TracksStock(v) == ~Falsy(Field(v, "stock_management"))

\* the stock of the variant is, as a number, greater than zero
HasStock(v) ==
  /\ ~IsNullish(Field(v, "stock"))
  /\ ~ToNumber(Field(v, "stock")).nan
  /\ ToNumber(Field(v, "stock")).n > 0

\* C18: an item built from a variant is in_stock if and only if the variant
\* does not track stock, or tracks it and its stock is a number greater than
\* zero; it is out_of_stock when the variant tracks stock and the stock is
\* null, absent, zero or negative.
C18_Availability ==
  \A r \in Slots :
    Flattened(r) =>
      \A i \in DOMAIN FromVariant(feed[r].flat) :
        LET it == FromVariant(feed[r].flat)[i]
            v == it.rawVariant
        IN  /\ it.availability \in {InStock, OutOfStock}
            /\ it.availability = InStock <=> (~TracksStock(v) \/ HasStock(v))

\* the variants of a product were split: a tracked stock of 0, of null, none
\* and of -1 give out_of_stock, an untracked stock and a stock of 5 in_stock
C18_Witness ==
  \E r \in Slots :
    /\ Flattened(r) /\ VARIANT_MODE = "split"
    /\ Len(feed[r].flat) = Len(StockVariants)
    /\ \A i \in DOMAIN feed[r].flat : feed[r].flat[i].rawVariant = StockVariants[i]
    /\ feed[r].flat[1].availability = OutOfStock
    /\ feed[r].flat[2].availability = InStock
    /\ feed[r].flat[3].availability = OutOfStock
    /\ feed[r].flat[4].availability = OutOfStock
    /\ feed[r].flat[5].availability = InStock
    /\ feed[r].flat[7].availability = OutOfStock
    /\ feed[r].flat[9].availability = InStock

\* the number of lines of a document that hold the element
Count(doc, element) == Len(SelectSeq(doc, LAMBDA l : l[1] = element))

\* the elements every document has exactly once
ChannelElements ==
  {"?xml", "rss", "channel", "title", "link", "description", "/channel", "/rss"}

\* the document opens and closes rss and channel once, in that order, and
\* holds the title, link and description of the channel before its items
Complete(doc) ==
  /\ \A element \in ChannelElements : Count(doc, element) = 1
  /\ Len(doc) > Cardinality(ChannelElements)
  /\ [i \in 1..6 |-> doc[i][1]] =
       <<"?xml", "rss", "channel", "title", "link", "description">>
  /\ doc[Len(doc) - 1][1] = "/channel"
  /\ doc[Len(doc)][1] = "/rss"
  /\ Count(doc, "item") = Count(doc, "/item")

\* C19: buildXmlFeed emits one <item> element for each item with a price
\* and none for an item without, in the order of the items, raises nothing
\* and counts no error; for every list of items, the empty one and one
\* without a price in it included, the document is complete.
C19_Document ==
  [][\A r \in Slots :
       (PageAnswered(r) /\ Success(feed'[r].pageRes) /\ feed'[r].pc = "done") =>
         LET doc == feedCache'[feed[r].sid].xml
             priced == Priced(feed'[r].flat)
         IN  /\ feed'[r].status \in {200, 304}
             /\ feed'[r].status = 200 => feed'[r].body = doc
             /\ storeMetrics'[feed[r].sid].feed_errors =
                  getMetrics(feed[r].sid).feed_errors
             /\ Complete(doc)
             /\ Count(doc, "item") = Len(priced)
             /\ Count(doc, "g:price") = Len(priced)
             /\ ItemIds(doc) = [i \in DOMAIN priced |-> xmlEscape(priced[i].item_id)]]_vars

\* a document was served for a list of several items with a price and,
\* between them, items without one
C19_Witness ==
  \E r \in Slots :
    /\ Flattened(r) /\ feed[r].status = 200
    /\ Complete(feed[r].body)
    /\ Len(feed[r].flat) = Len(PromoVariants)
    /\ ~Truthy(feed[r].flat[7].price)
    /\ Truthy(feed[r].flat[8].price)
    /\ ItemElements(feed[r].body) = Len(Priced(feed[r].flat))
    /\ ItemElements(feed[r].body) < Len(feed[r].flat)

\* the texts of the g:brand elements of a document, in document order
Brands(doc) ==
  LET brands == SelectSeq(doc, LAMBDA l : l[1] = "g:brand")
  IN  [i \in DOMAIN brands |-> brands[i][2]]

\* the brand sources of product p in the order of their precedence, each
\* trimmed: the override of the store, the brand field with its nested name
\* preferred, vendor, manufacturer, the brand-like key of attributes, and
\* the default
BrandSources(storeId, p) ==
  LET brand == Field(p, "brand")
      attributes == Field(p, "attributes")
  IN  << resolveBrandOverride(storeId),
         normalizeText(getLocalized(
           IF IsObject(brand) /\ ~Falsy(Field(brand, "name"))
           THEN Field(brand, "name") ELSE brand)),
         normalizeText(getLocalized(Field(p, "vendor"))),
         normalizeText(getLocalized(Field(p, "manufacturer"))),
         normalizeText(getLocalized(
           OrValue(Field(attributes, "brand"), Field(attributes, "marca")))),
         Trim(DEFAULT_BRAND) >>

\* the first source that is not empty, and the empty string when all are
FirstNonEmpty(sources) ==
  LET filled == SelectSeq(sources, LAMBDA b : b # <<>>)
  IN  IF filled = <<>> THEN <<>> ELSE filled[1]

\* C20: getBrandForProduct returns the first non-empty trimmed value among
\* the override of the store, the brand field, vendor, manufacturer, the
\* brand-like key of attributes and DEFAULT_BRAND; an empty or blank source
\* does not win; when all are empty the result is empty and the item has no
\* g:brand element.
C20_Brand ==
  \A r \in Slots :
    (Flattened(r) /\ feed[r].status = 200) =>
      LET priced == Priced(feed[r].flat)
          brandOf(it) == FirstNonEmpty(BrandSources(feed[r].sid, it.rawProduct))
          branded == SelectSeq(priced, LAMBDA it : brandOf(it) # <<>>)
      IN  Brands(feed[r].body) = [i \in DOMAIN branded |-> safeCdata(brandOf(branded[i]))]

\* documents of the same lines but for one line, which differs in exactly
\* one character
OneByteApart(x, y) ==
  /\ Len(x) = Len(y)
  /\ Cardinality({ i \in DOMAIN x : x[i] # y[i] }) = 1
  /\ \A i \in DOMAIN x : x[i] # y[i] =>
       /\ x[i][1] = y[i][1]
       /\ Len(x[i][2]) = Len(y[i][2])
       /\ Cardinality({ k \in DOMAIN x[i][2] : x[i][2][k] # y[i][2][k] }) = 1

NoRepeat(calls) == \A i, j \in DOMAIN calls : calls[i] = calls[j] => i = j

\* a new feed request takes slot r in this step
NewRequest(r) ==
  /\ feed[r].pc \in {"idle", "done"} /\ feed'[r] # feed[r]
  /\ hist'.left.feeds = hist.left.feeds - 1

\* C22: within one feed request each upstream request (/domains, /store,
\* each page of /products) is made at most once, a step makes at most one
\* request, a request that failed is not made again, and once a request is
\* answered, with 500 or otherwise, its handler makes no upstream request:
\* the next one is made by a new feed request.
C22_NoRetry ==
  [][\A r \in Slots :
       /\ NoRepeat(feed'[r].calls)
       /\ ~NewRequest(r) =>
            \/ feed'[r].calls = feed[r].calls
            \/ /\ Len(feed'[r].calls) = Len(feed[r].calls) + 1
               /\ SubSeq(feed'[r].calls, 1, Len(feed[r].calls)) = feed[r].calls
               /\ feed[r].pc \notin {"idle", "done"}
               /\ feed'[r].pc \notin {"idle", "done"}
       /\ (feed'[r].pc = "done" /\ feed'[r].status = 500) =>
            feed'[r].calls = feed[r].calls
       /\ (feed[r].pc = "done" /\ feed'[r] # feed[r]) =>
            NewRequest(r) /\ feed'[r].calls = <<>>]_vars

\* a request was answered 500 after /domains and /store had failed, the
\* first page had come full and the second page request had failed
C22_Witness ==
  \E r \in Slots :
    /\ feed[r].pc = "done" /\ feed[r].status = 500
    /\ feed[r].domainsRes.thrown /\ feed[r].storeRes.thrown
    /\ feed[r].calls = << Call("/domains", 0), Call("/store", 0),
                          Call("/products", 1), Call("/products", 2) >>
    /\ hist.left.feeds < CallFeeds

\* the store of request r has a cache entry that has not expired
Fresh(r) ==
  /\ feed[r].sid \in DOMAIN feedCache
  /\ ~(now > feedCache[feed[r].sid].expiresAt)

\* C23: a feed request that finds an entry of its store that has not
\* expired is answered from it, 200 with the entry's document or 304, makes
\* no upstream request and leaves the cache as it is; the domain resolver,
\* the catalogue client, the flattener and the serializer run only when no
\* such entry is found, and then the document is in the cache, put by
\* setCached, when the response is sent.
C23_CacheFirst ==
  [][\A r \in Slots :
       /\ (CacheLookup(r) /\ Fresh(r)) =>
            /\ feed'[r].pc = "done"
            /\ feed'[r].status \in {200, 304}
            /\ feed'[r].status = 200 => feed'[r].body = feedCache[feed[r].sid].xml
            /\ feed'[r].status = 304 => feed'[r].body = NoDoc
            /\ feed'[r].calls = <<>>
            /\ feed'[r].storeDomain = NullS /\ feed'[r].flat = <<>>
            /\ feedCache' = feedCache /\ hist'.puts = hist.puts
       /\ (CacheLookup(r) /\ ~Fresh(r)) =>
            /\ feed'[r].pc \in {"domains", "products"}
            /\ Len(feed'[r].calls) = 1
       /\ (feed'[r].calls # <<>> \/ feed'[r].storeDomain # NullS
             \/ feed'[r].pageRes # NoResponse) => feed'[r].cached = <<>>
       /\ CachePut(r) =>
            /\ feed[r].sid \in DOMAIN feedCache'
            /\ feedCache'[feed[r].sid].generatedAt = now
            /\ feed'[r].status = 200 => feed'[r].body = feedCache'[feed[r].sid].xml
            /\ \E p \in hist'.puts :
                 /\ p.xml = feedCache'[feed[r].sid].xml
                 /\ p.sid = feed[r].sid /\ p.at = now
       /\ feedCache' # feedCache =>
            \E q \in Slots : CachePut(q) \/ (CacheLookup(q) /\ ~Fresh(q))]_vars

\* a request without a domain parameter was answered 304 from the entry an
\* earlier request had put after asking /domains, and made no upstream call
C23_Witness ==
  \E r \in Slots :
    /\ feed[r].pc = "done" /\ feed[r].status = 304
    /\ feed[r].query = NullV /\ feed[r].calls = <<>>
    /\ feed[r].cached = <<feedCache[feed[r].sid]>>
    /\ Cardinality(hist.puts) = 1
    /\ storeMetrics[feed[r].sid].last_domain = CCo

\* a webhook delivery runs to its response or to the await in deleteToken
Delivered == hook.pc \in {"idle", "done"} /\ hook' # hook

\* the header of the delivery is the HMAC-SHA256 of its body under the
\* client secret
Signed(h) == h.header # <<>> /\ h.header = HmacSha256(TN_CLIENT_SECRET, h.body)

\* the delivery is an app/uninstalled event that names a store
NamesStore(h) == h.body.event = "app/uninstalled" /\ h.body.store_id # <<>>

\* the step leaves the credentials of the stores in others as they are
TokensKept(others) ==
  \A s \in others :
    /\ (s \in DOMAIN storeTokens') = (s \in DOMAIN storeTokens)
    /\ (s \in DOMAIN tokensTable') = (s \in DOMAIN tokensTable)
    /\ s \in DOMAIN storeTokens => storeTokens'[s] = storeTokens[s]
    /\ s \in DOMAIN tokensTable => tokensTable'[s] = tokensTable[s]

\* C24 (as claimed): a delivery whose signature is missing or does not
\* match is answered 401 and leaves the token store as it is; a verified
\* delivery of another event is answered 200 and leaves it as it is; a
\* verified app/uninstalled delivery touches the credential of the named
\* store only and, once it is answered 200, that credential is deleted; and
\* a credential disappears only in a step of such a delivery.
C24_Webhook ==
  [][/\ Delivered =>
          /\ ~Signed(hook') =>
               hook'.pc = "done" /\ hook'.status = 401 /\ TokensKept(Stores)
          /\ (Signed(hook') /\ ~NamesStore(hook')) =>
               hook'.pc = "done" /\ hook'.status = 200 /\ TokensKept(Stores)
          /\ (Signed(hook') /\ NamesStore(hook')) =>
               /\ hook'.sid = hook'.body.store_id
               /\ TokensKept(Stores \ {hook'.sid})
     /\ (hook.pc = "dbDelete" /\ hook' # hook) => TokensKept(Stores \ {hook.sid})
     /\ ( /\ hook' # hook /\ hook'.pc = "done" /\ hook'.status = 200
          /\ NamesStore(hook')
          /\ hist'.uninstalled[hook'.sid] = "yes" ) =>
          /\ hook'.sid \notin DOMAIN storeTokens'
          /\ hook'.sid \notin DOMAIN tokensTable'
     /\ \A s \in Stores :
          ( \/ s \in DOMAIN storeTokens /\ s \notin DOMAIN storeTokens'
            \/ s \in DOMAIN tokensTable /\ s \notin DOMAIN tokensTable' ) =>
          /\ hook' # hook /\ hook'.sid = s
          /\ Signed(hook') /\ NamesStore(hook')]_vars

\* no saveToken and no deleteToken is waiting for its statement
TokenStoreAtRest == inst.pc # "dbWrite" /\ hook.pc # "dbDelete"

\* C25 (as claimed): whenever no save and no delete is under way, hasToken
\* of a store is true exactly when getToken of the store returns a token,
\* with or without a pool and whether the query of either succeeds or
\* fails.
C25_ExistsIffLoads ==
  TokenStoreAtRest =>
    \A s \in Stores : \A hasOk, getOk \in BOOLEAN :
      hasToken(s, pool, hasOk) = (getToken(s, pool, getOk) # NoToken)

\* the time to live in milliseconds that setCached applies: the configured
\* seconds, or none when they are negative
EffectiveTtl ==
  IF FEED_CACHE_TTL_SECONDS >= 0 THEN FEED_CACHE_TTL_SECONDS * MsPerSecond ELSE 0

\* request r is answered from the cache entry it found in this step
FromCache(r) == CacheLookup(r) /\ feed'[r].cached # <<>>

\* C26: a response that comes from a cache entry (200 with the entry's
\* document, or 304) is sent while the entry is no older than the time to
\* live, and a request that looks the cache up after the entry of its store
\* has expired is not answered from it: the entry is dropped, the upstream
\* is asked, and the document sent is one generated then.
C26_NoStaleResponse ==
  [][\A r \in Slots :
       /\ FromCache(r) =>
            LET used == feed'[r].cached[1]
            IN  /\ used = feedCache[feed[r].sid]
                /\ now - used.generatedAt <= EffectiveTtl
                /\ ~(now > used.expiresAt)
                /\ feed'[r].status = 200 => feed'[r].body = used.xml
       /\ ( /\ CacheLookup(r)
            /\ feed[r].sid \in DOMAIN feedCache
            /\ now > feedCache[feed[r].sid].expiresAt ) =>
            /\ feed'[r].cached = <<>>
            /\ feed'[r].pc = "products" /\ feed'[r].calls # <<>>
            /\ feed[r].sid \notin DOMAIN feedCache'
       /\ (Served(r) /\ feed'[r].cached = <<>>) =>
            /\ feedCache'[feed[r].sid].generatedAt = now
            /\ feed'[r].status = 200 => feed'[r].body = feedCache'[feed[r].sid].xml]_vars

\* a request was answered from an entry put a whole time to live before,
\* at the last moment at which the entry has not expired
C26_Witness ==
  \E r \in Slots :
    /\ feed[r].pc = "done" /\ feed[r].status \in {200, 304}
    /\ feed[r].cached # <<>>
    /\ feed[r].cached[1].generatedAt < feed[r].cached[1].expiresAt
    /\ feed[r].cached[1].expiresAt = now
    /\ now - feed[r].cached[1].generatedAt = EffectiveTtl

\* the host of a link https://host/...
HostOf(text) == Split(SubSeq(text, Len(HttpsPrefix) + 1, Len(text)), "/")[1]

\* the hosts of the channel link and of the item links of a document
LinkHosts(doc) ==
  { HostOf(doc[i][2]) : i \in { k \in DOMAIN doc : doc[k][1] \in {"link", "g:link"} } }

\* the hosts that requests pass as a valid domain parameter
OverrideHosts == { QueryHost(q) : q \in CallQueries } \ {NullS}

\* request r has been sent a document
GotDocument(r) == feed[r].pc = "done" /\ feed[r].status = 200

\* C27 (as claimed): a request with a valid domain parameter is sent a
\* document whose channel link and item links all have that host, and a
\* request without one is never sent a document whose links have the host
\* of another request's domain parameter, whatever requests for the store
\* came before.
C27_Override ==
  \A r \in Slots : GotDocument(r) =>
    /\ Truthy(QueryHost(feed[r].query)) =>
         LinkHosts(feed[r].body) = {QueryHost(feed[r].query)}
    /\ ~Truthy(QueryHost(feed[r].query)) =>
         LinkHosts(feed[r].body) \cap OverrideHosts = {}

(***************************************************************************)
(* C28: metrics under interleaved feed requests                            *)
(***************************************************************************)
Outcomes == {"feed_cache_hits", "feed_304", "feed_errors"}

\* counter f of store s in the metrics map M, 0 while s has no entry
CountOf(M, s, f) == IF s \in DOMAIN M THEN M[s][f] ELSE 0

\* what the step adds to counter f of store s
Added(s, f) == CountOf(storeMetrics', s, f) - CountOf(storeMetrics, s, f)

\* the step is the arrival of a request in slot r
Arrives(r) == feed[r].pc \in {"idle", "done"} /\ feed'[r] # feed[r]

\* the step sends the response of the request in slot r
Responds(r) == feed[r].pc \notin {"idle", "done"} /\ feed'[r].pc = "done"

OutcomeSum(M, s) ==
  CountOf(M, s, "feed_cache_hits") + CountOf(M, s, "feed_304")
    + CountOf(M, s, "feed_errors")

\* C28: in every step, feed_requests of a store grows by the number of
\* requests for that store that arrive in the step (one, and only on
\* arrival), no outcome counter decreases, the outcome counters of a store
\* grow together by at most one and only in the step that answers a request
\* for that store, and the counters of every other store are unchanged;
\* hence feed_cache_hits + feed_304 + feed_errors <= feed_requests always.
C28_Metrics ==
  /\ [](\A s \in Stores : OutcomeSum(storeMetrics, s)
                             <= CountOf(storeMetrics, s, "feed_requests"))
  /\ [][\A s \in Stores :
         /\ Added(s, "feed_requests")
              = Cardinality({r \in Slots : Arrives(r) /\ feed'[r].sid = s})
         /\ \A f \in Outcomes : Added(s, f) >= 0
         /\ OutcomeSum(storeMetrics', s) - OutcomeSum(storeMetrics, s)
              <= Cardinality({r \in Slots : Responds(r) /\ feed[r].sid = s})
      ]_vars

\* two requests for one store were in flight together and both are answered,
\* one of them with an error: two requests counted, one outcome counted
C28_Witness ==
  \E s \in Stores :
    /\ \A r \in Slots : feed[r].pc = "done" /\ feed[r].sid = s
    /\ CountOf(storeMetrics, s, "feed_requests") = 2
    /\ CountOf(storeMetrics, s, "feed_errors") = 1
    /\ OutcomeSum(storeMetrics, s) = 1

(***************************************************************************)
(* C29: termination of fetchAllProducts                                    *)
(***************************************************************************)
\* the step ends the fetch of request r: the page answered is the last one
FetchEnds(r) == PageAnswered(r) /\ feed'[r].pc = "done"

\* C29: when the upstream answers every page request and some page is not
\* full (short, empty, no array, or a failure), every fetch ends; it has
\* then made floor(N / per_page) + 1 page requests, N being the number of
\* records received; and a page of at least per_page records is always
\* followed by the request of the next page, whatever its number.
C29_Terminates ==
  /\ \A r \in Slots : (feed[r].pc = "products") ~> (feed[r].pc = "done")
  /\ [][\A r \in Slots :
         /\ FetchEnds(r) =>
              Len(PagesRequested(feed'[r])) = (Len(feed'[r].all) \div per_page) + 1
         /\ (PageAnswered(r) /\ IsFullPage(feed'[r].pageRes)) =>
              /\ feed'[r].pc = "products"
              /\ feed'[r].page = feed[r].page + 1
              /\ PagesRequested(feed'[r]) =
                   Append(PagesRequested(feed[r]), feed[r].page + 1)
      ]_vars

\* a catalogue of two full pages: the third request got an empty page and
\* the fetch returned the 400 records
C29_Witness ==
  \E r \in Slots :
    /\ feed[r].pc = "done" /\ feed[r].status = 200
    /\ feed[r].pageRes = HttpOk(EmptyPage)
    /\ Len(feed[r].all) = 2 * per_page
    /\ Len(PagesRequested(feed[r])) = 3

(***************************************************************************)
(* C30: the initialisation of the database in the revision with initDbOnce *)
(***************************************************************************)
\* a query of a token function on the pool is in flight
OnPool ==
  \/ inst.pc = "dbWrite"
  \/ \E r \in Slots : feed[r].pc = "getToken"
  \/ dash.pc = "hasToken"
  \/ hook.pc = "dbDelete"

\* the step in which the call in record rec resumes after await initDbOnce()
Resumes(rec, recAfter) == rec.pc = "awaitInit" /\ recAfter.pc # "awaitInit"

\* C30: whatever calls of saveToken, getToken, hasToken and deleteToken are
\* made and however they interleave, at most one pool is created and the
\* query of ensureSchema runs at most once; a token function reads pool only
\* when the initialisation has settled; and after a failed initialisation
\* pool stays undefined, no query is sent on a pool, the table is not
\* touched, and every token function that resumes returns at once with
\* what the in-memory map gives: saveToken and deleteToken return, getToken
\* returns the memory entry, hasToken whether there is one.
C30_InitOnce ==
  /\ [](/\ hist.pools <= 1
        /\ hist.schemas <= 1
        /\ hist.reads \subseteq {"settled"}
        /\ hist.initFailed =>
             (pool = FALSE /\ dbInitPromise = "settled" /\ ~OnPool))
  /\ [][hist.initFailed =>
          /\ tokensTable' = tokensTable
          /\ Resumes(inst, inst') => (inst'.pc = "done" /\ inst'.status = 302)
          /\ Resumes(hook, hook') => (hook'.pc = "done" /\ hook'.status = 200)
          /\ Resumes(dash, dash') =>
               /\ dash'.pc = "done"
               /\ dash'.has = (MemoryToken(dash.sid) # NoToken)
          /\ \A r \in Slots : Resumes(feed[r], feed'[r]) =>
               /\ feed'[r].pc = "haveToken"
               /\ feed'[r].token = MemoryToken(feed[r].sid)
      ]_vars

\* the initialisation failed after one pool and one run of ensureSchema,
\* a second call arrived while it was running, and saveToken, getToken and
\* hasToken have returned with the memory entry although the table holds
\* another token of the store
C30_Witness ==
  /\ hist.initFailed /\ hist.pools = 1 /\ hist.schemas = 1 /\ hist.joined >= 1
  /\ inst.pc = "done" /\ inst.status = 302
  /\ feed["r1"].pc = "haveToken" /\ feed["r1"].token = "t1"
  /\ dash.pc = "done" /\ dash.has
  /\ RowToken(Store1) = "t0"

====
